---------------------------- MODULE Spec2Model ----------------------------
(***************************************************************************)
(* A model of graph_ascii.dag: the graph model (_graph.py), the renderer   *)
(* (_render.py) and the printer (_printer.py).                             *)
(*                                                                         *)
(* Python values are modelled as follows.                                  *)
(*   dict   a sequence of pairs <<key, value>> in insertion order          *)
(*   set    a TLA+ set; it is iterated in ascending order, which is the    *)
(*          order CPython gives a set of small non-negative integers       *)
(*   str    a sequence of one-character strings                            *)
(*   list   a sequence                                                     *)
(***************************************************************************)
EXTENDS Integers, Sequences, FiniteSets, TLC

VARIABLES
    pc,        \* position of the caller in the pipeline
    err,       \* the exception that ended the pipeline, "" when none
    given,     \* the (labels, edges) pair as the caller passed it
    nodes,     \* Graph.nodes: dict node -> label (the caller's mapping object)
    edges,     \* Graph.edges: dict node -> set of nodes
    heights,   \* cached Graph.node_heights: dict node -> height
    groups,    \* cached Graph.height_groups: dict height -> list of nodes
    options,   \* PrinterOptions of the Renderer / Printer
    plan,      \* result of Renderer._make_plan: dict height -> Plan
    cursors,   \* result of Renderer._make_cursors: dict height -> Cursors
    level,     \* _make_canvas: the iteration of the loop over the heights
    cur,       \* _make_symbols: the cursors of the path row to come
    steps,     \* _make_symbols: the steps of the path row being relaxed
    rows,      \* _make_symbols: the sparse path rows made so far
    canvas,    \* Renderer._make_canvas: list of symbol rows
    output     \* the string returned by to_string

vars == <<pc, err, given, nodes, edges, heights, groups, options, plan,
          cursors, level, cur, steps, rows, canvas, output>>

\* The variables of the graph model, and those of the canvas drawer.
graph_vars == <<given, nodes, edges, heights, groups>>

draw_vars == <<level, cur, steps, rows>>

----------------------------------------------------------------------------
(* Bounds of the model.                                                    *)

\* Nodes are the integers 0 .. MaxNode.
MaxNode == 3

\* Node identifiers.
Node == 0 .. MaxNode

----------------------------------------------------------------------------
(* Generic helpers for sequences and dicts.                                *)

Range(s) == {s[i] : i \in 1 .. Len(s)}

Max(S) == CHOOSE x \in S : \A y \in S : y <= x

Min(S) == CHOOSE x \in S : \A y \in S : x <= y

RECURSIVE SetOrder(_)
\* Iteration order of a Python set of small integers.
SetOrder(S) ==
    IF S = {} THEN << >>
    ELSE LET m == Min(S) IN <<m>> \o SetOrder(S \ {m})

RECURSIVE Concat(_)
\* Concatenation of a sequence of sequences.
Concat(ss) ==
    IF ss = << >> THEN << >> ELSE Head(ss) \o Concat(Tail(ss))

Reverse(s) == [i \in 1 .. Len(s) |-> s[Len(s) + 1 - i]]

DictHas(d, k) == \E i \in 1 .. Len(d) : d[i][1] = k

DictGet(d, k) == d[CHOOSE i \in 1 .. Len(d) : d[i][1] = k][2]

DictGetOr(d, k, default) == IF DictHas(d, k) THEN DictGet(d, k) ELSE default

DictPut(d, k, v) ==
    IF DictHas(d, k)
    THEN [i \in 1 .. Len(d) |-> IF d[i][1] = k THEN <<k, v>> ELSE d[i]]
    ELSE Append(d, <<k, v>>)

DictKeys(d) == [i \in 1 .. Len(d) |-> d[i][1]]

DictKeySet(d) == {d[i][1] : i \in 1 .. Len(d)}

----------------------------------------------------------------------------
(* Strings.                                                                *)

\* The ASCII characters from the space (32) to the underscore (95), in the
\* order of their code points.
AsciiUpper ==
    <<" ", "!", "\"", "#", "$", "%", "&", "'", "(", ")", "*", "+", ",",
      "-", ".", "/", "0", "1", "2", "3", "4", "5", "6", "7", "8", "9", ":",
      ";", "<", "=", ">", "?", "@", "A", "B", "C", "D", "E", "F", "G", "H",
      "I", "J", "K", "L", "M", "N", "O", "P", "Q", "R", "S", "T", "U", "V",
      "W", "X", "Y", "Z", "[", "\\", "]", "^", "_">>

\* The ASCII characters from a (97) to the tilde (126).
AsciiLower ==
    <<"a", "b", "c", "d", "e", "f", "g", "h", "i", "j", "k", "l", "m", "n",
      "o", "p", "q", "r", "s", "t", "u", "v", "w", "x", "y", "z", "{", "|",
      "}", "~">>

\* ord(c): the code point of a character, by which Python compares strings;
\* defined for the characters of the two tables.
Ord(c) ==
    IF \E i \in 1 .. Len(AsciiUpper) : AsciiUpper[i] = c
    THEN 31 + CHOOSE i \in 1 .. Len(AsciiUpper) : AsciiUpper[i] = c
    ELSE 96 + CHOOSE i \in 1 .. Len(AsciiLower) : AsciiLower[i] = c

RECURSIVE StrLess(_, _)
\* s < t for Python strings: lexicographic by code point.
StrLess(s, t) ==
    IF t = << >> THEN FALSE
    ELSE IF s = << >> THEN TRUE
    ELSE IF Ord(Head(s)) # Ord(Head(t)) THEN Ord(Head(s)) < Ord(Head(t))
    ELSE StrLess(Tail(s), Tail(t))

----------------------------------------------------------------------------
(* _collections.py                                                         *)

RECURSIVE GroupInto(_, _)
GroupInto(acc, items) ==
    IF items = << >> THEN acc
    ELSE LET k == Head(items)[1]
             v == Head(items)[2]
         IN GroupInto(DictPut(acc, k, Append(DictGetOr(acc, k, << >>), v)),
                      Tail(items))

\* group_by_key: the items grouped by key, keys in order of first appearance.
group_by_key(items) == GroupInto(<< >>, items)

----------------------------------------------------------------------------
(* _graph.py                                                               *)

\* The endpoints of the edges mapping in the order _init_nodes visits them.
\* A variant of Endpoints that forgets the neighbors: the sources only.
EndpointsSources(es) == [i \in 1 .. Len(es) |-> es[i][1]]

Endpoints(es) ==
    Concat([i \in 1 .. Len(es) |-> <<es[i][1]>> \o SetOrder(es[i][2])])

RECURSIVE AddMissing(_, _)
AddMissing(ns, seq) ==
    IF seq = << >> THEN ns
    ELSE AddMissing(IF DictHas(ns, Head(seq)) THEN ns
                    ELSE Append(ns, <<Head(seq), << >>>>),
                    Tail(seq))

\* Graph._init_nodes: register every endpoint that has no label with ''.
_init_nodes(ns, es) == AddMissing(ns, Endpoints(es))

RECURSIVE _node_height(_, _, _)
RECURSIVE MinNeighborHeight(_, _, _, _)
\* A variant of MaxNeighborHeight that takes min() over the neighbors.
MinNeighborHeight(es, mapping, nbrs, best) ==
    IF nbrs = << >> THEN [m |-> mapping, h |-> best, err |-> best = -1]
    ELSE LET r == _node_height(es, mapping, Head(nbrs))
         IN IF r.err THEN r
            ELSE MinNeighborHeight(es, r.m, Tail(nbrs),
                                   IF best = -1 \/ r.h < best
                                   THEN r.h ELSE best)

RECURSIVE MaxNeighborHeight(_, _, _, _)

\* max(self._node_height(mapping, neighbor) for neighbor in self.edges[node]):
\* `best` is -1 until the first neighbor; max() of no neighbor raises.
MaxNeighborHeight(es, mapping, nbrs, best) ==
    IF nbrs = << >> THEN [m |-> mapping, h |-> best, err |-> best = -1]
    ELSE LET r == _node_height(es, mapping, Head(nbrs))
         IN IF r.err THEN r
            ELSE MaxNeighborHeight(es, r.m, Tail(nbrs),
                                   IF r.h > best THEN r.h ELSE best)

\* Graph._node_height: the memoized height of a node; [m, h, err].
_node_height(es, mapping, node) ==
    IF DictHas(mapping, node)
    THEN [m |-> mapping, h |-> DictGet(mapping, node), err |-> FALSE]
    ELSE IF ~DictHas(es, node)
    THEN [m |-> DictPut(mapping, node, 0), h |-> 0, err |-> FALSE]
    ELSE LET r == MaxNeighborHeight(es, mapping,
                                    SetOrder(DictGet(es, node)), -1)
         IN IF r.err THEN [m |-> r.m, h |-> 0, err |-> TRUE]
            ELSE [m |-> DictPut(r.m, node, 1 + r.h), h |-> 1 + r.h,
                  err |-> FALSE]

RECURSIVE HeightsLoop(_, _, _)
HeightsLoop(es, mapping, keys) ==
    IF keys = << >> THEN [m |-> mapping, err |-> FALSE]
    ELSE LET r == _node_height(es, mapping, Head(keys))
         IN IF r.err THEN [m |-> r.m, err |-> TRUE]
            ELSE HeightsLoop(es, r.m, Tail(keys))

\* A variant of node_heights that counts two levels for every edge of the
\* longest path.
node_heights_doubled(ns, es) ==
    LET r == HeightsLoop(es, << >>, DictKeys(ns))
    IN [m |-> [i \in 1 .. Len(r.m) |-> <<r.m[i][1], 2 * r.m[i][2]>>],
        err |-> r.err]

\* Graph.node_heights: [m |-> dict node -> height, err |-> raised ValueError].
node_heights(ns, es) == HeightsLoop(es, << >>, DictKeys(ns))

RECURSIVE ReverseInto(_, _)
ReverseInto(acc, pairs) ==
    IF pairs = << >> THEN acc
    ELSE LET src == Head(pairs)[1]
             dest == Head(pairs)[2]
         IN ReverseInto(
                DictPut(acc, dest, DictGetOr(acc, dest, {}) \cup {src}),
                Tail(pairs))

\* The (src, dest) pairs in the order reverse_edges visits them.
EdgePairs(es) ==
    Concat([i \in 1 .. Len(es) |->
               LET ds == SetOrder(es[i][2])
               IN [j \in 1 .. Len(ds) |-> <<es[i][1], ds[j]>>]])

\* Graph.reverse_edges: the edges mapping of the reversed graph.
reverse_edges(es) == ReverseInto(<< >>, EdgePairs(es))

\* score(node) of height_groups.
score(hs, rhs, n) == DictGetOr(hs, n, 0) + DictGetOr(rhs, n, 0)

\* A variant of KeyLess without the minus sign: the key (score(node), label).
KeyLessAscending(ns, hs, rhs, a, b) ==
    \/ score(hs, rhs, a) < score(hs, rhs, b)
    \/ /\ score(hs, rhs, a) = score(hs, rhs, b)
       /\ StrLess(DictGet(ns, a), DictGet(ns, b))

\* The sort key (-score(node), label) of a is smaller than that of b.
KeyLess(ns, hs, rhs, a, b) ==
    \/ score(hs, rhs, a) > score(hs, rhs, b)
    \/ /\ score(hs, rhs, a) = score(hs, rhs, b)
       /\ StrLess(DictGet(ns, a), DictGet(ns, b))

RECURSIVE InsertSorted(_, _, _, _, _)
\* Insert x after every element whose key is not greater (a stable sort).
InsertSorted(ns, hs, rhs, srt, x) ==
    IF srt = << >> THEN <<x>>
    ELSE IF KeyLess(ns, hs, rhs, x, Head(srt)) THEN <<x>> \o srt
    ELSE <<Head(srt)>> \o InsertSorted(ns, hs, rhs, Tail(srt), x)

RECURSIVE SortFrom(_, _, _, _, _)
SortFrom(ns, hs, rhs, srt, rest) ==
    IF rest = << >> THEN srt
    ELSE SortFrom(ns, hs, rhs, InsertSorted(ns, hs, rhs, srt, Head(rest)),
                  Tail(rest))

\* sorted_group of height_groups: sorted(nodes, key=(-score, label)).
sorted_group(ns, hs, rhs, group) == SortFrom(ns, hs, rhs, << >>, group)

\* Graph.height_groups, given the cached node heights hs.
height_groups(ns, es, hs) ==
    LET rhs == node_heights(ns, reverse_edges(es)).m
        groupings == group_by_key([i \in 1 .. Len(hs) |-> <<hs[i][2], hs[i][1]>>])
    IN [i \in 1 .. Len(groupings) |->
           <<groupings[i][1], sorted_group(ns, hs, rhs, groupings[i][2])>>]

----------------------------------------------------------------------------
(* _symbol.py and the records of _render.py                                *)

\* Symbol(symbol_type, label='').
Symbol(t) == [type |-> t, label |-> << >>]

NodeSymbol(label) == [type |-> "NODE", label |-> label]

\* SymbolType.to_char.
to_char(t) ==
    CASE t = "CROSS" -> "x"
      [] t = "HOLD" -> "|"
      [] t = "LEFT" -> "/"
      [] t = "LEFT_MOVE" -> "_"
      [] t = "NODE" -> "o"
      [] t = "RIGHT" -> "\\"
      [] t = "RIGHT_MOVE" -> "_"
      [] t = "SPACE" -> " "

Plan(defined, passing_by) == [defined |-> defined, passing_by |-> passing_by]

Cursor(node, current, target) ==
    [node |-> node, current |-> current, target |-> target]

Cursors(ns, ps) == [nodes |-> ns, paths |-> ps]

Step(cursor, symbols) == [cursor |-> cursor, symbols |-> symbols]

\* Cursor.add.
CursorAdd(c, delta) == Cursor(c.node, c.current + delta, c.target)

\* Step.__eq__: equal cursors and equal sets of symbols.
StepEq(a, b) == a.cursor = b.cursor /\ Range(a.symbols) = Range(b.symbols)

\* Equality of two lists of steps.
StepsEq(s, t) ==
    Len(s) = Len(t) /\ \A i \in 1 .. Len(s) : StepEq(s[i], t[i])

\* Step.has_position.
has_position(step, pos) ==
    \E i \in 1 .. Len(step.symbols) : step.symbols[i][1] = pos

\* The index of the first occurrence of x in s, 0 when there is none.
IndexOf(s, x) ==
    IF \E i \in 1 .. Len(s) : s[i] = x
    THEN Min({i \in 1 .. Len(s) : s[i] = x})
    ELSE 0

----------------------------------------------------------------------------
(* _render.py: the planner                                                 *)

\* The condition under which _compute_passing_by appends node to the next
\* level: some neighbor lies below `height` and is not defined there.
\* A variant of PassesBy without the test `neighbor not in
\* next_level.defined`.
PassesByAnyLower(es, hs, height, next_defined, node) ==
    \E neighbor \in DictGet(es, node) : DictGet(hs, neighbor) < height

PassesBy(es, hs, height, next_defined, node) ==
    \E neighbor \in DictGet(es, node) :
        /\ DictGet(hs, neighbor) < height
        /\ neighbor \notin Range(next_defined)

\* A variant of _compute_passing_by without its second loop: the paths
\* that pass by a level are not followed to the level below.
_compute_passing_by_once(es, hs, height, tracking) ==
    IF ~(DictHas(tracking, height) /\ DictHas(tracking, height - 1))
    THEN tracking
    ELSE LET current_level == DictGet(tracking, height)
             next_level == DictGet(tracking, height - 1)
             from_defined ==
                 SelectSeq(current_level.defined,
                           LAMBDA n : \E neighbor \in DictGet(es, n) :
                               /\ DictGet(hs, neighbor) < height
                               /\ neighbor \notin Range(next_level.defined))
         IN DictPut(tracking, height - 1,
                    Plan(next_level.defined,
                         next_level.passing_by \o from_defined))

\* Renderer._compute_passing_by: the tracking with the passing_by list of
\* level height-1 extended.
_compute_passing_by(es, hs, height, tracking) ==
    IF ~(DictHas(tracking, height) /\ DictHas(tracking, height - 1))
    THEN tracking
    ELSE LET current_level == DictGet(tracking, height)
             next_level == DictGet(tracking, height - 1)
             from_defined ==
                 SelectSeq(current_level.defined,
                           LAMBDA n : PassesBy(es, hs, height,
                                               next_level.defined, n))
             from_passing ==
                 SelectSeq(current_level.passing_by,
                           LAMBDA n : PassesBy(es, hs, height,
                                               next_level.defined, n))
         IN DictPut(tracking, height - 1,
                    Plan(next_level.defined,
                         next_level.passing_by \o from_defined
                             \o from_passing))

RECURSIVE PlanLoop(_, _, _, _)
\* for height in range(max(height_groups), 1, -1)
PlanLoop(es, hs, tracking, height) ==
    IF height <= 1 THEN tracking
    ELSE PlanLoop(es, hs, _compute_passing_by(es, hs, height, tracking),
                  height - 1)

\* Renderer._make_plan, for a non-empty height_groups.
_make_plan(es, hs, gs) ==
    PlanLoop(es, hs,
             [i \in 1 .. Len(gs) |-> <<gs[i][1], Plan(gs[i][2], << >>)>>],
             Max(DictKeySet(gs)))

----------------------------------------------------------------------------
(* _render.py: the cursor builder                                          *)

\* The start of the index j of node_to_passby targets.
NodeToPassbyBase(next) == Len(next.passing_by)

\* Cursors of the nodes defined in curr that pass by the next level.
node_to_passby(curr, next) ==
    Concat([i \in 1 .. Len(curr.defined) |->
        LET k == IndexOf(next.passing_by, curr.defined[i])
        IN IF k = 0 THEN << >>
           ELSE <<Cursor(curr.defined[i], (i - 1) * 2,
                         (NodeToPassbyBase(next) + k - 1) * 2)>>])

\* Cursors of the nodes passing by curr that pass by the next level too.
passby_to_passby(curr, next) ==
    Concat([i \in 1 .. Len(curr.passing_by) |->
        LET k == IndexOf(next.passing_by, curr.passing_by[i])
        IN IF k = 0 THEN << >>
           ELSE <<Cursor(curr.passing_by[i],
                         (Len(curr.defined) + i - 1) * 2,
                         (Len(next.defined) + k - 1) * 2)>>])

\* Cursors from `node`, drawn at column col, to its neighbors defined in
\* the next level.
ToDefined(es, next, node, col) ==
    LET nbrs == SetOrder(DictGetOr(es, node, {}))
    IN Concat([n \in 1 .. Len(nbrs) |->
           LET j == IndexOf(next.defined, nbrs[n])
           IN IF j = 0 THEN << >>
              ELSE <<Cursor(node, col, (j - 1) * 2)>>])

node_to_node(es, curr, next) ==
    Concat([i \in 1 .. Len(curr.defined) |->
               ToDefined(es, next, curr.defined[i], (i - 1) * 2)])

passby_to_node(es, curr, next) ==
    Concat([i \in 1 .. Len(curr.passing_by) |->
               ToDefined(es, next, curr.passing_by[i],
                         (Len(curr.defined) + i - 1) * 2)])

\* A variant of _make_cursor that sorts the cursors by where they end: those
\* that reach a node in `nodes`, those that go on passing by in `paths`.
_make_cursor_by_target(es, curr, next) ==
    Cursors(node_to_node(es, curr, next) \o passby_to_node(es, curr, next),
            node_to_passby(curr, next) \o passby_to_passby(curr, next))

\* Renderer._make_cursor.
_make_cursor(es, curr, next) ==
    Cursors(node_to_node(es, curr, next) \o node_to_passby(curr, next),
            passby_to_node(es, curr, next) \o passby_to_passby(curr, next))

\* The cursors of a level that has no level below it.
BottomCursors(p) ==
    Cursors([i \in 1 .. Len(p.defined) |->
                Cursor(p.defined[i], (i - 1) * 2, (i - 1) * 2)],
            [i \in 1 .. Len(p.passing_by) |->
                Cursor(p.passing_by[i], (Len(p.defined) + i - 1) * 2,
                       (Len(p.defined) + i - 1) * 2)])

\* Renderer._make_cursors: levels max(planning) down to 0.
_make_cursors(es, planning) ==
    LET top == Max(DictKeySet(planning))
    IN [i \in 1 .. top + 1 |->
           LET height == top + 1 - i
           IN <<height,
                IF DictHas(planning, height - 1)
                THEN _make_cursor(es, DictGet(planning, height),
                                  DictGet(planning, height - 1))
                ELSE BottomCursors(DictGet(planning, height))>>]

----------------------------------------------------------------------------
(* _render.py: the canvas drawer                                           *)

\* Renderer._move_cursors: one step per cursor.
\* A variant of MoveCursor that draws the diagonal on the column the cursor
\* leaves instead of the column between the two.
MoveCursorOnColumn(c) ==
    IF c.current < c.target
    THEN Step(CursorAdd(c, 2), <<<<c.current, Symbol("RIGHT")>>>>)
    ELSE IF c.current > c.target
    THEN Step(CursorAdd(c, -2), <<<<c.current, Symbol("LEFT")>>>>)
    ELSE Step(c, <<<<c.current, Symbol("HOLD")>>>>)

\* A variant of MoveCursor with the two diagonals exchanged.
MoveCursorMirrored(c) ==
    IF c.current < c.target
    THEN Step(CursorAdd(c, 2), <<<<c.current + 1, Symbol("LEFT")>>>>)
    ELSE IF c.current > c.target
    THEN Step(CursorAdd(c, -2), <<<<c.current - 1, Symbol("RIGHT")>>>>)
    ELSE Step(c, <<<<c.current, Symbol("HOLD")>>>>)

MoveCursor(c) ==
    IF c.current < c.target
    THEN Step(CursorAdd(c, 2), <<<<c.current + 1, Symbol("RIGHT")>>>>)
    ELSE IF c.current > c.target
    THEN Step(CursorAdd(c, -2), <<<<c.current - 1, Symbol("LEFT")>>>>)
    ELSE Step(c, <<<<c.current, Symbol("HOLD")>>>>)

_move_cursors(cs) == [i \in 1 .. Len(cs) |-> MoveCursor(cs[i])]

\* _find_step: the index of the first step with a symbol at position, or 0.
_find_step(sts, position) ==
    IF \E i \in 1 .. Len(sts) : has_position(sts[i], position)
    THEN Min({i \in 1 .. Len(sts) : has_position(sts[i], position)})
    ELSE 0

\* A variant of MoveLeftStep that slides a step only over free columns and
\* never joins the path of another step.
MoveLeftStepAlone(sts, step) ==
    LET current == step.cursor.current
        step_curr == _find_step(sts, current)
        step_left == _find_step(sts, current - 1)
    IN IF current <= step.cursor.target THEN step
       ELSE IF step_curr = 0 /\ step_left = 0
       THEN Step(CursorAdd(step.cursor, -2),
                 step.symbols \o <<<<current - 1, Symbol("LEFT_MOVE")>>,
                                   <<current, Symbol("LEFT_MOVE")>>>>)
       ELSE step

\* A variant of MoveLeftStep that joins the path on the column to the left
\* or on the own column whatever its target is.
MoveLeftStepAnyTarget(sts, step) ==
    LET current == step.cursor.current
        step_curr == _find_step(sts, current)
        step_left == _find_step(sts, current - 1)
    IN IF current <= step.cursor.target THEN step
       ELSE IF step_curr = 0 /\ step_left = 0
       THEN Step(CursorAdd(step.cursor, -2),
                 step.symbols \o <<<<current - 1, Symbol("LEFT_MOVE")>>,
                                   <<current, Symbol("LEFT_MOVE")>>>>)
       ELSE IF step_curr = 0
       THEN Step(CursorAdd(step.cursor, -2),
                 step.symbols \o <<<<current, Symbol("LEFT_MOVE")>>>>)
       ELSE Step(CursorAdd(step.cursor, -2), step.symbols)

\* A variant of MoveLeftStep that also slides a step that stands on its
\* target column.
MoveLeftStepEager(sts, step) ==
    LET current == step.cursor.current
        step_curr == _find_step(sts, current)
        step_left == _find_step(sts, current - 1)
    IN IF current < step.cursor.target THEN step
       ELSE IF step_curr = 0 /\ step_left = 0
       THEN Step(CursorAdd(step.cursor, -2),
                 step.symbols \o <<<<current - 1, Symbol("LEFT_MOVE")>>,
                                   <<current, Symbol("LEFT_MOVE")>>>>)
       ELSE IF step_curr = 0
       THEN IF sts[step_left].cursor.target # step.cursor.target
            THEN step
            ELSE Step(CursorAdd(step.cursor, -2),
                      step.symbols \o <<<<current, Symbol("LEFT_MOVE")>>>>)
       ELSE IF sts[step_curr].cursor.target # step.cursor.target
            THEN step
            ELSE Step(CursorAdd(step.cursor, -2), step.symbols)

\* What _move_left makes of one step of the list `steps`.
MoveLeftStep(sts, step) ==
    LET current == step.cursor.current
        step_curr == _find_step(sts, current)
        step_left == _find_step(sts, current - 1)
    IN IF current <= step.cursor.target THEN step
       ELSE IF step_curr = 0 /\ step_left = 0
       THEN Step(CursorAdd(step.cursor, -2),
                 step.symbols \o <<<<current - 1, Symbol("LEFT_MOVE")>>,
                                   <<current, Symbol("LEFT_MOVE")>>>>)
       ELSE IF step_curr = 0
       THEN IF sts[step_left].cursor.target # step.cursor.target
            THEN step
            ELSE Step(CursorAdd(step.cursor, -2),
                      step.symbols \o <<<<current, Symbol("LEFT_MOVE")>>>>)
       ELSE IF sts[step_curr].cursor.target # step.cursor.target
            THEN step
            ELSE Step(CursorAdd(step.cursor, -2), step.symbols)

\* The module function _move_left: one application of the slide-left.
_move_left(sts) == [i \in 1 .. Len(sts) |-> MoveLeftStep(sts, sts[i])]

RECURSIVE MoveLeftFixpoint(_)
\* Renderer._move_left: apply _move_left until the steps no longer change.
MoveLeftFixpoint(sts) ==
    LET new_steps == _move_left(sts)
    IN IF StepsEq(sts, new_steps) THEN new_steps
       ELSE MoveLeftFixpoint(new_steps)

\* A variant of _resolve_conflict that keeps the second operand where the
\* rules name no winner.
_resolve_conflict_keep_last(a, b) ==
    IF a.type = "NODE" THEN a
    ELSE IF b.type = "NODE" THEN b
    ELSE IF b.type = "SPACE" THEN a
    ELSE IF a.type = "SPACE" THEN b
    ELSE IF a.type = "LEFT" /\ b.type = "RIGHT" THEN Symbol("CROSS")
    ELSE IF a.type = "RIGHT" /\ b.type = "LEFT" THEN Symbol("CROSS")
    ELSE IF a.type = "CROSS" /\ b.type \in {"LEFT", "RIGHT"}
    THEN Symbol("CROSS")
    ELSE IF b.type = "CROSS" /\ a.type \in {"LEFT", "RIGHT"}
    THEN Symbol("CROSS")
    ELSE b

\* A variant of _resolve_conflict that knows the crossing of a LEFT with a
\* later RIGHT only.
_resolve_conflict_one_way(a, b) ==
    IF a.type = "NODE" THEN a
    ELSE IF b.type = "NODE" THEN b
    ELSE IF b.type = "SPACE" THEN a
    ELSE IF a.type = "SPACE" THEN b
    ELSE IF a.type = "LEFT" /\ b.type = "RIGHT" THEN Symbol("CROSS")
    ELSE IF a.type = "CROSS" /\ b.type \in {"LEFT", "RIGHT"}
    THEN Symbol("CROSS")
    ELSE IF b.type = "CROSS" /\ a.type \in {"LEFT", "RIGHT"}
    THEN Symbol("CROSS")
    ELSE a

\* _resolve_conflict: the symbol for two symbols at the same position.
_resolve_conflict(a, b) ==
    IF a.type = "NODE" THEN a
    ELSE IF b.type = "NODE" THEN b
    ELSE IF b.type = "SPACE" THEN a
    ELSE IF a.type = "SPACE" THEN b
    ELSE IF a.type = "LEFT" /\ b.type = "RIGHT" THEN Symbol("CROSS")
    ELSE IF a.type = "RIGHT" /\ b.type = "LEFT" THEN Symbol("CROSS")
    ELSE IF a.type = "CROSS" /\ b.type \in {"LEFT", "RIGHT"}
    THEN Symbol("CROSS")
    ELSE IF b.type = "CROSS" /\ a.type \in {"LEFT", "RIGHT"}
    THEN Symbol("CROSS")
    ELSE a

RECURSIVE Reduce(_, _)
\* functools.reduce(_resolve_conflict, group), with acc the first element.
Reduce(acc, rest) ==
    IF rest = << >> THEN acc
    ELSE Reduce(_resolve_conflict(acc, Head(rest)), Tail(rest))

\* dict(_merge_symbols(symbols)): position -> merged symbol.
_merge_symbols(symbols) ==
    LET gs == group_by_key(symbols)
    IN [i \in 1 .. Len(gs) |->
           <<gs[i][1], Reduce(Head(gs[i][2]), Tail(gs[i][2]))>>]

\* A row of symbols from a mapping position -> symbol, spaces elsewhere.
DenseRow(mapping) ==
    [i \in 1 .. Max(DictKeySet(mapping)) + 1 |->
        DictGetOr(mapping, i - 1, Symbol("SPACE"))]

\* One pass of _make_symbols: the steps after the move and the slide-left.
RowSteps(cs) == MoveLeftFixpoint(_move_cursors(cs))

StepCursors(sts) == [i \in 1 .. Len(sts) |-> sts[i].cursor]

StepSymbols(sts) == Concat([i \in 1 .. Len(sts) |-> sts[i].symbols])

NoChanges(cs) == \A i \in 1 .. Len(cs) : cs[i].current = cs[i].target

RECURSIVE _make_symbols(_, _)
\* Renderer._make_symbols: the sparse path rows of a list of cursors.
_make_symbols(cs, acc) ==
    IF NoChanges(cs) /\ acc # << >> THEN acc
    ELSE LET sts == RowSteps(cs)
         IN _make_symbols(StepCursors(sts),
                          Append(acc, StepSymbols(sts)))

\* Renderer._draw_paths: the path rows below a node row.
_draw_paths(cs) ==
    LET symbols == _make_symbols(cs, << >>)
    IN [i \in 1 .. Len(symbols) |-> DenseRow(_merge_symbols(symbols[i]))]

\* The symbols mapping of _draw_cursors: nodes first, then paths over them.
CursorSymbols(ns, c) ==
    [i \in 1 .. Len(c.nodes) |->
        <<c.nodes[i].current, NodeSymbol(DictGet(ns, c.nodes[i].node))>>]
    \o [i \in 1 .. Len(c.paths) |->
        <<c.paths[i].current, Symbol("HOLD")>>]

RECURSIVE DictUpdate(_, _)
\* dict.update with a list of (key, value) pairs: the later value wins.
DictUpdate(d, pairs) ==
    IF pairs = << >> THEN d
    ELSE DictUpdate(DictPut(d, Head(pairs)[1], Head(pairs)[2]), Tail(pairs))

\* A variant of _draw_cursors that draws the node cursors only.
_draw_cursors_nodes_only(ns, c) ==
    DenseRow(DictUpdate(<< >>, CursorSymbols(ns, Cursors(c.nodes, << >>))))

\* Renderer._draw_cursors: the node row of a level.
_draw_cursors(ns, c) == DenseRow(DictUpdate(<< >>, CursorSymbols(ns, c)))

\* range(max(cursors_mapping), -1, -1): the heights _make_canvas walks,
\* whatever the order in which the mapping holds them.
HeightsDown(cursors_mapping) ==
    LET top == Max(DictKeySet(cursors_mapping))
    IN [i \in 1 .. top + 1 |-> top + 1 - i]

KeyError(key) == "KeyError: " \o ToString(key)

\* The exception of one iteration of the loop of _make_canvas on the
\* labels ns, "" when it raises none: the lookup of a height that is not a
\* key; in _draw_cursors, get_node_label of the first node cursor whose
\* node has no label entry, or max(symbols) when the level has no cursor.
LevelError(ns, cursors_mapping, height) ==
    IF ~DictHas(cursors_mapping, height) THEN KeyError(height)
    ELSE LET c == DictGet(cursors_mapping, height)
             unlabelled == {i \in 1 .. Len(c.nodes) :
                               ~DictHas(ns, c.nodes[i].node)}
         IN IF unlabelled # {} THEN KeyError(c.nodes[Min(unlabelled)].node)
            ELSE IF c.nodes = << >> /\ c.paths = << >>
            THEN "ValueError: max() arg is an empty sequence"
            ELSE ""

\* The exception _make_canvas raises, "" when it raises none: max() of an
\* empty mapping, the exception of the first iteration that raises one,
\* pop() when the loop had no height to walk.
CanvasError(ns, cursors_mapping) ==
    IF cursors_mapping = << >>
    THEN "ValueError: max() arg is an empty sequence"
    ELSE LET heights_down == HeightsDown(cursors_mapping)
             failing == {i \in 1 .. Len(heights_down) :
                            LevelError(ns, cursors_mapping, heights_down[i])
                                # ""}
         IN IF failing # {}
            THEN LevelError(ns, cursors_mapping, heights_down[Min(failing)])
            ELSE IF heights_down = << >>
            THEN "IndexError: pop from empty list"
            ELSE ""

\* The rows of _make_canvas before the last one is dropped:
\* [rows |-> the rows, err |-> the exception or ""].
CanvasRows(ns, cursors_mapping) ==
    IF CanvasError(ns, cursors_mapping) # ""
    THEN [rows |-> << >>, err |-> CanvasError(ns, cursors_mapping)]
    ELSE LET heights_down == HeightsDown(cursors_mapping)
         IN [rows |-> Concat([i \in 1 .. Len(heights_down) |->
                         LET c == DictGet(cursors_mapping, heights_down[i])
                         IN <<_draw_cursors(ns, c)>>
                                \o _draw_paths(c.nodes \o c.paths)]),
             err |-> ""]

\* Renderer._make_canvas: [canvas |-> the rows, err |-> the exception or ""].
_make_canvas(ns, cursors_mapping) ==
    LET acc == CanvasRows(ns, cursors_mapping)
    IN IF acc.err # "" THEN [canvas |-> << >>, err |-> acc.err]
       ELSE [canvas |-> SubSeq(acc.rows, 1, Len(acc.rows) - 1), err |-> ""]

----------------------------------------------------------------------------
(* _string.py                                                              *)

RECURSIVE CommonPrefix(_, _)
\* The inner loop of longest_common_prefix: the common prefix of two strings.
CommonPrefix(current, item) ==
    IF current = << >> \/ item = << >> \/ Head(current) # Head(item)
    THEN << >>
    ELSE <<Head(current)>> \o CommonPrefix(Tail(current), Tail(item))

RECURSIVE PrefixLoop(_, _)
PrefixLoop(current, rest) ==
    IF rest = << >> \/ current = << >> THEN current
    ELSE PrefixLoop(CommonPrefix(current, Head(rest)), Tail(rest))

longest_common_prefix(items) ==
    IF items = << >> THEN << >> ELSE PrefixLoop(Head(items), Tail(items))

longest_common_suffix(items) ==
    Reverse(longest_common_prefix([i \in 1 .. Len(items) |->
                                      Reverse(items[i])]))

----------------------------------------------------------------------------
(* _printer.py                                                             *)

\* The members of the Spacing enum.
SpacingMethods == {"FIXED", "JUSTIFIED", "AUTO_JUSTIFIED"}

\* ' ' * n
Blanks(n) == [i \in 1 .. n |-> " "]

RECURSIVE Join(_, _)
\* sep.join(items)
Join(sep, items) ==
    IF items = << >> THEN << >>
    ELSE IF Len(items) = 1 THEN Head(items)
    ELSE Head(items) \o sep \o Join(sep, Tail(items))

\* label[n:]
DropFirst(label, n) == SubSeq(label, n + 1, Len(label))

\* label[:-n]; in Python label[:-0] is the empty string.
DropLast(label, n) ==
    IF n = 0 THEN << >> ELSE SubSeq(label, 1, Len(label) - n)

\* _RowPrinter._print_symbols: the labels of the NODE symbols of the row.
RowLabels(row) ==
    LET ns == SelectSeq(row, LAMBDA sym : sym.type = "NODE")
    IN [i \in 1 .. Len(ns) |-> ns[i].label]

\* _RowPrinter._print_symbols: the characters of the symbols of the row.
RowChars(row) == [i \in 1 .. Len(row) |-> to_char(row[i].type)]

\* The condition of _RowPrinter.to_string for printing spacing and labels.
HasLabels(row) ==
    LET labels == RowLabels(row)
    IN labels # << >> /\ \E i \in 1 .. Len(labels) : Len(labels[i]) > 0

_print_fixed_spacing(opt) == Blanks(opt.spaces)

\* A variant of _print_justified_spacing without the blank that is always
\* printed: max(0, needed_spaces).
_print_justified_spacing_tight(used_chars, opt) ==
    IF used_chars = 0 THEN << >>
    ELSE Blanks(Max({0, opt.spaces - used_chars}))

_print_justified_spacing(used_chars, opt) ==
    IF used_chars = 0 THEN << >>
    ELSE Blanks(Max({1, opt.spaces - used_chars}))

\* A variant of _print_auto_justified_spacing that does not align: the
\* spacing after the glyphs is `spaces` blanks whatever the width of the row.
_print_unaligned_spacing(used_chars, max_size, opt) ==
    IF used_chars = 0 THEN << >> ELSE Blanks(opt.spaces)

_print_auto_justified_spacing(used_chars, max_size, opt) ==
    IF used_chars = 0 THEN << >>
    ELSE Blanks(Max({0, max_size + opt.spaces - used_chars}))

_print_spacing(used_chars, max_size, opt) ==
    CASE opt.spacing = "FIXED" -> _print_fixed_spacing(opt)
      [] opt.spacing = "JUSTIFIED" -> _print_justified_spacing(used_chars, opt)
      [] opt.spacing = "AUTO_JUSTIFIED" ->
             _print_auto_justified_spacing(used_chars, max_size, opt)

\* _RowPrinter._maybe_group_by_prefix: [prefix, labels]; n is the number of
\* labels of the row.
_maybe_group_by_prefix(labels, n, opt) ==
    IF ~(opt.group_labels_by_prefix /\ n >= opt.min_group_size)
    THEN [prefix |-> << >>, labels |-> labels]
    ELSE LET prefix == longest_common_prefix(labels)
         IN IF Len(prefix) < opt.prefix_min_length
            THEN [prefix |-> << >>, labels |-> labels]
            ELSE [prefix |-> prefix,
                  labels |-> [i \in 1 .. Len(labels) |->
                                 DropFirst(labels[i], Len(prefix))]]

\* _RowPrinter._maybe_group_by_suffix: [labels, suffix].
_maybe_group_by_suffix(labels, n, opt) ==
    IF ~(opt.group_labels_by_suffix /\ n >= opt.min_group_size)
    THEN [labels |-> labels, suffix |-> << >>]
    ELSE LET suffix == longest_common_suffix(labels)
         IN IF Len(suffix) < opt.suffix_min_length
            THEN [labels |-> labels, suffix |-> << >>]
            ELSE [labels |-> [i \in 1 .. Len(labels) |->
                                 DropLast(labels[i], Len(suffix))],
                  suffix |-> suffix]

\* The three parts _print_labels works out: prefix, inner labels, suffix.
LabelParts(labels, opt) ==
    LET p == _maybe_group_by_prefix(labels, Len(labels), opt)
        q == _maybe_group_by_suffix(p.labels, Len(labels), opt)
    IN [prefix |-> p.prefix, labels |-> q.labels, suffix |-> q.suffix]

\* A variant of _print_labels that writes an empty entry as nothing.
_print_labels_blank(labels, opt) ==
    LET parts == LabelParts(labels, opt)
        fmt_labels == Join(<<",">>, parts.labels)
    IN IF parts.prefix # << >> \/ parts.suffix # << >>
       THEN parts.prefix \o <<"{">> \o fmt_labels \o <<"}">> \o parts.suffix
       ELSE fmt_labels

\* _RowPrinter._print_labels: the label part of a row.
_print_labels(labels, opt) ==
    LET parts == LabelParts(labels, opt)
        fmt_labels ==
            Join(<<",">>, [i \in 1 .. Len(parts.labels) |->
                              IF parts.labels[i] # << >>
                              THEN parts.labels[i] ELSE <<"?">>])
    IN IF parts.prefix # << >> \/ parts.suffix # << >>
       THEN parts.prefix \o <<"{">> \o fmt_labels \o <<"}">> \o parts.suffix
       ELSE fmt_labels

\* _RowPrinter.to_string, for a known spacing method.
RowToString(row, max_size, opt) ==
    LET chars == RowChars(row)
    IN IF HasLabels(row)
       THEN chars \o _print_spacing(Len(chars), max_size, opt)
                  \o _print_labels(RowLabels(row), opt)
       ELSE chars

\* max(len(row) for row in rendered_graph)
MaxSize(rendered_graph) ==
    Max({Len(rendered_graph[i]) : i \in 1 .. Len(rendered_graph)})

\* Printer.to_string: [out |-> the string, err |-> the exception or ""].
PrinterToString(rendered_graph, opt) ==
    IF rendered_graph = << >>
    THEN [out |-> << >>,
          err |-> "ValueError: max() arg is an empty sequence"]
    ELSE IF opt.spacing \notin SpacingMethods
    THEN [out |-> << >>, err |-> "ValueError: unknown spacing method"]
    ELSE [out |-> Join(<<"\n">>,
                       [i \in 1 .. Len(rendered_graph) |->
                           RowToString(rendered_graph[i],
                                       MaxSize(rendered_graph), opt)])
                  \o <<"\n">>,
          err |-> ""]

----------------------------------------------------------------------------
(* Renderer(Graph(labels, edges), options).to_string() as one function     *)

\* Renderer.to_string on Graph(ns0, es): [out |-> string, err |-> exception].
RendererToString(ns0, es, opt) ==
    LET ns == _init_nodes(ns0, es)
        hs == node_heights(ns, es)
        gs == height_groups(ns, es, hs.m)
        planning == _make_plan(es, hs.m, gs)
        cursors_mapping == _make_cursors(es, planning)
    IN IF hs.err \/ gs = << >>
       THEN [out |-> << >>,
             err |-> "ValueError: max() arg is an empty sequence"]
       ELSE LET drawn == _make_canvas(ns, cursors_mapping)
            IN IF drawn.err # "" THEN [out |-> << >>, err |-> drawn.err]
               ELSE PrinterToString(drawn.canvas, opt)

----------------------------------------------------------------------------
(* Inputs: the (labels, edges) pairs a caller may pass.                    *)

\* At most MaxEdges edges in a graph.
MaxEdges == 4

\* Edges go from a smaller to a larger identifier, so the graph is acyclic.
EdgeUniverse == {p \in Node \X Node : p[1] < p[2]}

EdgeSets == {E \in SUBSET EdgeUniverse : Cardinality(E) <= MaxEdges}

Neighbors(E, n) == {p[2] : p \in {q \in E : q[1] = n}}

\* The keys S of a mapping in the order they were inserted.
KeyOrder(S, descending) ==
    IF descending THEN Reverse(SetOrder(S)) ELSE SetOrder(S)

\* An edges mapping: a key for every source of E and for every node of Z,
\* which maps to the empty set.
EdgesDict(E, Z, descending) ==
    LET ks == KeyOrder({p[1] : p \in E} \cup Z, descending)
    IN [i \in 1 .. Len(ks) |-> <<ks[i], Neighbors(E, ks[i])>>]

\* The ways a caller labels the nodes: not at all, every node "a", or only
\* the even nodes ("b").
LabelSchemes == {"none", "same", "partial"}

LabelledNodes(scheme) ==
    CASE scheme = "none" -> {}
      [] scheme = "same" -> Node
      [] scheme = "partial" -> {n \in Node : n % 2 = 0}

LabelOf(scheme, n) == IF scheme = "same" THEN <<"a">> ELSE <<"b">>

LabelsDict(scheme, descending) ==
    LET ks == KeyOrder(LabelledNodes(scheme), descending)
    IN [i \in 1 .. Len(ks) |-> <<ks[i], LabelOf(scheme, ks[i])>>]

\* Nodes without an outgoing edge in E.
Sinks(E) == {n \in Node : Neighbors(E, n) = {}}

\* The mappings that are not yet computed hold the empty dict / string.
Unset == << >>

DefaultOptions ==
    [spacing |-> "AUTO_JUSTIFIED", spaces |-> 4,
     group_labels_by_prefix |-> TRUE, group_labels_by_suffix |-> TRUE,
     min_group_size |-> 2, prefix_min_length |-> 4, suffix_min_length |-> 4]

----------------------------------------------------------------------------
(* The pipeline: Graph(...), node_heights, height_groups, Renderer(...),   *)
(* _make_plan, _make_cursors, _make_canvas, Printer.to_string.             *)

Init ==
    /\ pc = "start"
    /\ err = ""
    /\ \E E \in EdgeSets, Z \in {S \in SUBSET Node : Cardinality(S) <= 1},
          scheme \in LabelSchemes, dn \in BOOLEAN, de \in BOOLEAN :
          /\ Z \subseteq Sinks(E)
          /\ given = [nodes |-> LabelsDict(scheme, dn),
                      edges |-> EdgesDict(E, Z, de)]
    /\ nodes = given.nodes
    /\ edges = given.edges
    /\ heights = Unset
    /\ groups = Unset
    /\ options = DefaultOptions
    /\ plan = Unset
    /\ cursors = Unset
    /\ level = 0
    /\ cur = Unset
    /\ steps = Unset
    /\ rows = Unset
    /\ canvas = Unset
    /\ output = Unset

\* Graph.__init__: keep the two mappings and register the missing nodes.
Construct ==
    /\ pc = "start"
    /\ pc' = "graph"
    /\ nodes' = _init_nodes(nodes, edges)
    /\ UNCHANGED <<err, given, edges, heights, groups, options, plan,
                   cursors, draw_vars, canvas, output>>

\* Graph.node_heights (cached_property): computed on first access.
NodeHeights ==
    /\ pc = "graph"
    /\ LET r == node_heights(nodes, edges)
       IN IF r.err
          THEN /\ pc' = "error"
               /\ err' = "ValueError: max() arg is an empty sequence"
               /\ UNCHANGED heights
          ELSE /\ pc' = "heights"
               /\ heights' = r.m
               /\ UNCHANGED err
    /\ UNCHANGED <<given, nodes, edges, groups, options, plan, cursors,
                   draw_vars, canvas, output>>

\* Graph.height_groups (cached_property).
HeightGroups ==
    /\ pc = "heights"
    /\ pc' = "groups"
    /\ groups' = height_groups(nodes, edges, heights)
    /\ UNCHANGED <<err, given, nodes, edges, heights, options, plan,
                   cursors, draw_vars, canvas, output>>

\* The values of PrinterOptions.spacing a caller may pass.
SpacingValues == SpacingMethods \cup {"UNKNOWN"}

\* Renderer.__init__: keep the graph and build the Printer of the options.
NewRenderer ==
    /\ pc = "groups"
    /\ pc' = "renderer"
    /\ \E sp \in SpacingValues :
          options' = [DefaultOptions EXCEPT !.spacing = sp]
    /\ UNCHANGED <<err, graph_vars, plan, cursors, draw_vars, canvas,
                   output>>

\* Renderer._make_plan; max(height_groups) raises on an empty graph.
MakePlan ==
    /\ pc = "renderer"
    /\ IF groups = << >>
       THEN /\ pc' = "error"
            /\ err' = "ValueError: max() arg is an empty sequence"
            /\ UNCHANGED plan
       ELSE /\ pc' = "plan"
            /\ plan' = _make_plan(edges, heights, groups)
            /\ UNCHANGED err
    /\ UNCHANGED <<graph_vars, options, cursors, draw_vars, canvas, output>>

\* Renderer._make_cursors; _make_canvas then starts with an empty canvas at
\* the top level.
MakeCursors ==
    /\ pc = "plan"
    /\ pc' = "draw"
    /\ cursors' = _make_cursors(edges, plan)
    /\ canvas' = << >>
    /\ level' = 1
    /\ UNCHANGED <<err, graph_vars, options, plan, cur, steps, rows, output>>

\* _make_canvas, the head and the body of the loop: max(cursors_mapping)
\* raises on an empty mapping; otherwise look up the cursors of the
\* height, append the node row of the level (_draw_cursors) and enter
\* _draw_paths with its cursors.
DrawCursors ==
    /\ pc = "draw"
    /\ IF cursors = << >>
       THEN /\ pc' = "error"
            /\ err' = "ValueError: max() arg is an empty sequence"
            /\ UNCHANGED <<canvas, cur, rows, steps>>
       ELSE /\ level <= Len(HeightsDown(cursors))
            /\ LET height == HeightsDown(cursors)[level]
               IN IF LevelError(nodes, cursors, height) # ""
                  THEN /\ pc' = "error"
                       /\ err' = LevelError(nodes, cursors, height)
                       /\ UNCHANGED <<canvas, cur, rows, steps>>
                  ELSE LET c == DictGet(cursors, height)
                       IN /\ pc' = "symbols"
                          /\ canvas' = Append(canvas, _draw_cursors(nodes, c))
                          /\ cur' = c.nodes \o c.paths
                          /\ rows' = << >>
                          /\ steps' = << >>
                          /\ UNCHANGED err
    /\ UNCHANGED <<graph_vars, options, plan, cursors, level, output>>

\* _make_symbols, when a row is still to be made: _move_cursors.
MoveCursors ==
    /\ pc = "symbols"
    /\ ~(NoChanges(cur) /\ rows # << >>)
    /\ pc' = "relax"
    /\ steps' = _move_cursors(cur)
    /\ UNCHANGED <<err, graph_vars, options, plan, cursors, level, cur, rows,
                   canvas, output>>

\* Renderer._move_left: one application of _move_left and the comparison
\* of the loop; at the fixed point _make_symbols takes the cursors and the
\* symbols of the steps and recurses.
MoveLeft ==
    /\ pc = "relax"
    /\ \E new_steps \in {_move_left(steps)} :
          IF StepsEq(steps, new_steps)
          THEN /\ pc' = "symbols"
               /\ cur' = StepCursors(new_steps)
               /\ rows' = Append(rows, StepSymbols(new_steps))
               /\ steps' = << >>
          ELSE /\ steps' = new_steps
               /\ UNCHANGED <<pc, cur, rows>>
    /\ UNCHANGED <<err, graph_vars, options, plan, cursors, level, canvas,
                   output>>

\* A variant of DrawPaths that draws no path row for a level on which no
\* cursor has to move.
DrawPathsOnlyMoves ==
    /\ pc = "symbols"
    /\ NoChanges(cur) /\ rows # << >>
    /\ pc' = "draw"
    /\ canvas' = IF NoChanges(
                        DictGet(cursors, HeightsDown(cursors)[level]).nodes
                        \o DictGet(cursors, HeightsDown(cursors)[level]).paths)
                 THEN canvas
                 ELSE canvas \o [i \in 1 .. Len(rows) |->
                                    DenseRow(_merge_symbols(rows[i]))]
    /\ level' = level + 1
    /\ UNCHANGED <<err, graph_vars, options, plan, cursors, cur, steps, rows,
                   output>>

\* _make_symbols returns: _draw_paths merges the symbols of every row and
\* _make_canvas extends the canvas and goes to the next level.
DrawPaths ==
    /\ pc = "symbols"
    /\ NoChanges(cur) /\ rows # << >>
    /\ pc' = "draw"
    /\ canvas' = canvas \o [i \in 1 .. Len(rows) |->
                               DenseRow(_merge_symbols(rows[i]))]
    /\ level' = level + 1
    /\ UNCHANGED <<err, graph_vars, options, plan, cursors, cur, steps, rows,
                   output>>

\* A variant of PopCanvas that returns the canvas with every row drawn.
PopCanvasKeepAll ==
    /\ pc = "draw"
    /\ cursors # << >>
    /\ level > Len(HeightsDown(cursors))
    /\ IF canvas = << >>
       THEN /\ pc' = "error"
            /\ err' = "IndexError: pop from empty list"
            /\ UNCHANGED canvas
       ELSE /\ pc' = "canvas"
            /\ UNCHANGED <<err, canvas>>
    /\ UNCHANGED <<graph_vars, options, plan, cursors, draw_vars, output>>

\* _make_canvas, after the loop: canvas.pop(), which raises when the loop
\* had no height to walk.
PopCanvas ==
    /\ pc = "draw"
    /\ cursors # << >>
    /\ level > Len(HeightsDown(cursors))
    /\ IF canvas = << >>
       THEN /\ pc' = "error"
            /\ err' = "IndexError: pop from empty list"
            /\ UNCHANGED canvas
       ELSE /\ pc' = "canvas"
            /\ canvas' = SubSeq(canvas, 1, Len(canvas) - 1)
            /\ UNCHANGED err
    /\ UNCHANGED <<graph_vars, options, plan, cursors, draw_vars, output>>

\* Printer.to_string on the canvas: the last stage of Renderer.to_string.
PrintCanvas ==
    /\ pc = "canvas"
    /\ LET r == PrinterToString(canvas, options)
       IN IF r.err # ""
          THEN /\ pc' = "error"
               /\ err' = r.err
               /\ UNCHANGED output
          ELSE /\ pc' = "done"
               /\ output' = r.out
               /\ UNCHANGED err
    /\ UNCHANGED <<graph_vars, options, plan, cursors, draw_vars, canvas>>

Next ==
    \/ Construct
    \/ NodeHeights
    \/ HeightGroups
    \/ NewRenderer
    \/ MakePlan
    \/ MakeCursors
    \/ DrawCursors
    \/ MoveCursors
    \/ MoveLeft
    \/ DrawPaths
    \/ PopCanvas
    \/ PrintCanvas

Spec == Init /\ [][Next]_vars

----------------------------------------------------------------------------
(* Definitions the properties are stated with.  They restate the data      *)
(* model of the specification and do not follow the code.                  *)

\* The edge relation of an edges mapping.
Rel(es) == UNION {{<<es[i][1], d>> : d \in es[i][2]} : i \in 1 .. Len(es)}

Inverse(R) == {<<p[2], p[1]>> : p \in R}

Successors(R, n) == {p[2] : p \in {q \in R : q[1] = n}}

RECURSIVE LongestPath(_, _)
\* The length of the longest directed path of R that starts at n.
LongestPath(R, n) ==
    IF Successors(R, n) = {} THEN 0
    ELSE 1 + Max({LongestPath(R, m) : m \in Successors(R, n)})

\* h(n) + h_rev(n) in the graph of the edges mapping.
Combined(n) == LongestPath(Rel(edges), n) + LongestPath(Inverse(Rel(edges)), n)

\* Every node that is a source or a neighbor in an edges mapping.
EndpointSet(es) == DictKeySet(es) \cup UNION {es[i][2] : i \in 1 .. Len(es)}

\* A mapping with its keys inserted in ascending order.
SortedByKey(d) ==
    LET ks == SetOrder(DictKeySet(d))
    IN [i \in 1 .. Len(ks) |-> <<ks[i], DictGet(d, ks[i])>>]

Even(n) == n % 2 = 0

\* node_heights has returned a mapping.
HeightsDone == pc \notin {"start", "graph"} /\ Len(heights) = Len(nodes)

\* height_groups has just returned.
GroupsDone == pc = "groups"

\* Every symbol of the canvas, as <<row, column, symbol>> with columns from 0.
CanvasCells ==
    UNION {{<<r, c - 1, canvas[r][c]>> : c \in 1 .. Len(canvas[r])} :
              r \in 1 .. Len(canvas)}

\* Every cursor the renderer holds: those of _make_cursors and those of the
\* path row being made.
AllCursors ==
    UNION {Range(cursors[i][2].nodes) \cup Range(cursors[i][2].paths) :
              i \in 1 .. Len(cursors)}
    \cup Range(cur) \cup {steps[i].cursor : i \in 1 .. Len(steps)}

----------------------------------------------------------------------------
(* Properties of the pipeline (specification Spec).                        *)

\* C1: rendering does not depend on the insertion order of the two
\* mappings: the result of to_string is the result for the same mappings
\* populated in ascending key order.
C1_Determinism ==
    pc \in {"done", "error"} =>
        [out |-> output, err |-> err]
            = RendererToString(SortedByKey(given.nodes),
                               SortedByKey(given.edges), options)

\* C2: node_heights gives every node the length of the longest path that
\* starts at it, 0 for a node without outgoing edges, be it absent from
\* the edges mapping or present with an empty neighbor set.
C2_NodeHeights ==
    pc \notin {"start", "graph"} =>
        \A n \in DictKeySet(nodes) :
            /\ DictHas(heights, n)
            /\ DictGet(heights, n) = LongestPath(Rel(edges), n)

\* C3: height_groups maps each height to exactly the nodes of that height,
\* every node is in exactly one group, and each group is ordered by
\* decreasing h(n) + h_rev(n), ties by ascending label.
C3_HeightGroups ==
    GroupsDone =>
        LET V == DictKeySet(nodes)
            h == [n \in V |-> LongestPath(Rel(edges), n)]
            total == [n \in V |-> Combined(n)]
        IN /\ \A i, j \in 1 .. Len(groups) :
                  groups[i][1] = groups[j][1] => i = j
           /\ \A n \in V : \E i \in 1 .. Len(groups) : n \in Range(groups[i][2])
           /\ \A i \in 1 .. Len(groups) :
                  LET g == groups[i][2]
                  IN /\ Range(g) = {n \in V : h[n] = groups[i][1]}
                     /\ Cardinality(Range(g)) = Len(g)
                     /\ \A a, b \in 1 .. Len(g) :
                            a < b =>
                                \/ total[g[a]] > total[g[b]]
                                \/ /\ total[g[a]] = total[g[b]]
                                   /\ ~StrLess(DictGet(nodes, g[b]),
                                               DictGet(nodes, g[a]))

\* C3 witness: a group was reordered by label: two nodes with the same
\* combined height, the first with the smaller label although its height
\* was computed later.
C3_Witness ==
    /\ pc = "groups"
    /\ \E i \in 1 .. Len(groups) :
           LET g == groups[i][2]
           IN \E a, b \in 1 .. Len(g) :
                  /\ a < b
                  /\ Combined(g[a]) = Combined(g[b])
                  /\ StrLess(DictGet(nodes, g[a]), DictGet(nodes, g[b]))
                  /\ IndexOf(DictKeys(heights), g[a])
                         > IndexOf(DictKeys(heights), g[b])

\* C4: after construction every endpoint of the edges is a key of the label
\* mapping, with the empty label when none was supplied; supplied labels
\* are kept; no error is raised.
C4_InitNodes ==
    pc # "start" =>
        /\ \A n \in EndpointSet(given.edges) :
               /\ DictHas(nodes, n)
               /\ ~DictHas(given.nodes, n) => DictGet(nodes, n) = << >>
        /\ \A k \in DictKeySet(given.nodes) :
               DictHas(nodes, k) /\ DictGet(nodes, k) = DictGet(given.nodes, k)
        /\ Cardinality(DictKeySet(nodes)) = Len(nodes)
        /\ pc = "graph" => err = ""

\* C4 witness: a graph was built from edges with an endpoint that had no
\* label and an endpoint that had one.
C4_Witness ==
    /\ pc = "graph"
    /\ \E n, k \in EndpointSet(given.edges) :
           /\ ~DictHas(given.nodes, n)
           /\ DictHas(given.nodes, k)
           /\ DictGet(nodes, k) # << >>

\* C5: rendering the empty graph returns normally, with the empty string
\* or a single newline.
C5_EmptyGraph ==
    (given.nodes = << >> /\ given.edges = << >>) =>
        /\ pc # "error"
        /\ pc = "done" => output \in {<< >>, <<"\n">>}

\* C6: an unknown spacing policy is reported before the render starts: no
\* layout stage has run when the error is raised, and there is no output.
C6_InvalidConfiguration ==
    err = "ValueError: unknown spacing method" =>
        plan = Unset /\ cursors = Unset /\ canvas = Unset /\ output = Unset

\* C7: in every row of the canvas NODE is on an even column and LEFT, RIGHT
\* and CROSS are on odd columns; the current and target columns of every
\* cursor are even at all times.
C7_ColumnParity ==
    /\ \A cell \in CanvasCells :
           /\ cell[3].type = "NODE" => Even(cell[2])
           /\ cell[3].type \in {"LEFT", "RIGHT", "CROSS"} => ~Even(cell[2])
    /\ \A c \in AllCursors : Even(c.current) /\ Even(c.target)

\* C7 witness: a finished canvas with a CROSS, and a NODE off column 0.
C7_Witness ==
    /\ pc = "canvas"
    /\ \E cell \in CanvasCells : cell[3].type = "CROSS"
    /\ \E cell \in CanvasCells : cell[3].type = "NODE" /\ cell[2] >= 2

----------------------------------------------------------------------------
(* Drawing the path rows of one level from a given list of cursors: the    *)
(* calls of Renderer._draw_paths.                                          *)

\* The widest fan-in drawn.
MaxFanIn == 5

\* At most MaxCursors cursors in a list that is not a fan-in.
MaxCursors == 3

\* Nodes stand on the columns 0, 2, ..., 2 * MaxSlot.
MaxSlot == 2

Columns == {2 * i : i \in 0 .. MaxSlot}

\* k cursors on the columns 0, 2, ..., 2(k-1), all with target 0.
FanIn(k) == [i \in 1 .. k |-> Cursor(i - 1, 2 * (i - 1), 0)]

\* Lists of cursors between the node columns, in any order and with
\* repetitions (_make_cursor concatenates the cursors of four loops, and a
\* node that reaches a slot both as a neighbor's column and as its own
\* passing-by column gets the same cursor twice); the cursors of one
\* column are those of one node.
CursorLists ==
    LET Pairs == Columns \X Columns
        Lists == UNION {[1 .. n -> Pairs] : n \in 1 .. MaxCursors}
    IN {[i \in 1 .. Len(l) |-> Cursor(l[i][1] \div 2, l[i][1], l[i][2])] :
           l \in Lists}

DrawInputs == CursorLists \cup {FanIn(k) : k \in 2 .. MaxFanIn}

InitDraw ==
    /\ pc = "symbols"
    /\ err = ""
    /\ \E cs \in DrawInputs : given = [cursors |-> cs]
    /\ nodes = << >>
    /\ edges = << >>
    /\ heights = << >>
    /\ groups = << >>
    /\ options = DefaultOptions
    /\ plan = Unset
    /\ cursors = Unset
    /\ level = 1
    /\ cur = given.cursors
    /\ steps = << >>
    /\ rows = << >>
    /\ canvas = << >>
    /\ output = Unset

NextDraw == MoveCursors \/ MoveLeft \/ DrawPaths

SpecDraw == InitDraw /\ [][NextDraw]_vars

\* The cursors are those of k >= 2 nodes on the columns 0, 2, ..., 2(k-1)
\* whose paths all end on column 0.
IsFanIn(cs) ==
    /\ Len(cs) >= 2
    /\ \A i \in 1 .. Len(cs) : cs[i].current = 2 * (i - 1) /\ cs[i].target = 0

RECURSIVE Times(_, _)
\* The string s repeated n times.
Times(s, n) == IF n <= 0 THEN << >> ELSE s \o Times(s, n - 1)

\* C14: no stage mutates its input: once the graph is constructed, and
\* through every stage of the rendering, the labels mapping and the edges
\* mapping of the caller are exactly as they were passed in.
C14_NoMutation ==
    pc # "start" => nodes = given.nodes /\ edges = given.edges

\* C15: the computed heights decrease along every edge: height(n) >
\* height(m) for every edge (n, m).
C15_HeightMonotonicity ==
    HeightsDone =>
        \A e \in Rel(edges) : DictGet(heights, e[1]) > DictGet(heights, e[2])

\* C15 witness: heights were computed for a graph with an edge to the next
\* level and an edge that skips a level.
C15_Witness ==
    /\ pc = "heights"
    /\ \E e, f \in Rel(edges) :
           /\ DictGet(heights, e[1]) = DictGet(heights, e[2]) + 1
           /\ DictGet(heights, f[1]) > DictGet(heights, f[2]) + 1

\* The longest path from every node, from the edge relation.
SpecHeight == [n \in DictKeySet(nodes) |-> LongestPath(Rel(edges), n)]

\* The nodes whose path goes through level h without stopping there: nodes
\* above h with an edge to a node below h.
PassingNodes(h) ==
    {n \in DictKeySet(nodes) :
        /\ SpecHeight[n] > h
        /\ \E m \in Successors(Rel(edges), n) : SpecHeight[m] < h}

\* C16: a node defined at index i of level h that is at index j of the
\* passing_by of level h-1 gets the cursor
\* Cursor(n, 2i, 2(len(next.defined) + j)): it goes to its passing-by slot,
\* to the right of the defined nodes of the next level.
C16_NodeToPassby ==
    pc = "draw" =>
        \A h \in DictKeySet(cursors) :
            DictHas(plan, h - 1) =>
                LET curr == DictGet(plan, h)
                    next == DictGet(plan, h - 1)
                    c == DictGet(cursors, h)
                IN \A i \in 1 .. Len(curr.defined),
                      j \in 1 .. Len(next.passing_by) :
                       curr.defined[i] = next.passing_by[j] =>
                           Cursor(curr.defined[i], 2 * (i - 1),
                                  2 * (Len(next.defined) + j - 1))
                               \in Range(c.nodes) \cup Range(c.paths)

\* C17: P[h].defined is the height group of h; P[h].passing_by holds n
\* exactly when height(n) > h and n has an edge to a node of height < h,
\* each such n once; the passing_by of level 0 and of the top level are
\* empty; passing_by and defined are disjoint.
C17_Plan ==
    pc = "plan" =>
        /\ DictKeySet(plan) = DictKeySet(groups)
        /\ Len(plan) = Len(groups)
        /\ \A h \in DictKeySet(plan) :
               LET p == DictGet(plan, h)
               IN /\ p.defined = DictGet(groups, h)
                  /\ Range(p.passing_by) = PassingNodes(h)
                  /\ Cardinality(Range(p.passing_by)) = Len(p.passing_by)
                  /\ Range(p.passing_by) \cap Range(p.defined) = {}
        /\ DictGet(plan, 0).passing_by = << >>
        /\ DictGet(plan, Max(DictKeySet(plan))).passing_by = << >>

\* C17 witness: a plan in which one node passes by two levels.
C17_Witness ==
    /\ pc = "plan"
    /\ \E h \in DictKeySet(plan) :
           /\ DictHas(plan, h + 1)
           /\ \E n \in Range(DictGet(plan, h).passing_by) :
                  n \in Range(DictGet(plan, h + 1).passing_by)

\* C18 as stated: every node of P[h].passing_by has an edge that enters a
\* node at a level strictly below h - 1.
C18_SkipsBelowNext ==
    pc = "plan" =>
        \A h \in DictKeySet(plan) :
            \A n \in Range(DictGet(plan, h).passing_by) :
                \E m \in Successors(Rel(edges), n) : SpecHeight[m] < h - 1

\* C18: every node of P[h].passing_by is an origin node above level h with
\* an edge that enters a node at a level strictly below h.
C18_PassingBy ==
    pc = "plan" =>
        \A h \in DictKeySet(plan) :
            \A n \in Range(DictGet(plan, h).passing_by) :
                /\ SpecHeight[n] > h
                /\ \E m \in Successors(Rel(edges), n) : SpecHeight[m] < h

\* C18 witness: a plan with a path that passes by a level and enters a
\* node of the level right below it.
C18_Witness ==
    /\ pc = "plan"
    /\ \E h \in DictKeySet(plan) :
           \E n \in Range(DictGet(plan, h).passing_by) :
               \A m \in Successors(Rel(edges), n) : SpecHeight[m] >= h - 1

\* The neighbors of n that are defined in the level `next`.
DefinedNeighbors(n, next) == Successors(Rel(edges), n) \cap Range(next.defined)

\* The number of paths that leave the nodes of `origins` for the level
\* `next`: one to every neighbor defined there and one if the node passes by.
PathsFrom(origins, next) ==
    LET count == [n \in Range(origins) |->
                     Cardinality(DefinedNeighbors(n, next))
                     + (IF n \in Range(next.passing_by) THEN 1 ELSE 0)]
        RECURSIVE Sum(_)
        Sum(S) == IF S = {} THEN 0
                  ELSE LET n == CHOOSE x \in S : TRUE
                       IN count[n] + Sum(S \ {n})
    IN Sum(Range(origins))

\* C19 as stated: in the cursors of a level h >= 1, `nodes` holds the
\* cursors whose path ends at a node defined in level h-1 and `paths` those
\* whose path goes on passing by level h-1.
C19_ByDestination ==
    pc = "draw" =>
        \A h \in DictKeySet(cursors) :
            DictHas(plan, h - 1) =>
                LET next == DictGet(plan, h - 1)
                    c == DictGet(cursors, h)
                IN /\ \A x \in Range(c.nodes) :
                          \E m \in DefinedNeighbors(x.node, next) :
                              x.target = 2 * (IndexOf(next.defined, m) - 1)
                   /\ \A x \in Range(c.paths) :
                          /\ x.node \in Range(next.passing_by)
                          /\ x.target >= 2 * Len(next.defined)
                   /\ Range(c.nodes) \cap Range(c.paths) = {}

\* C19: in the cursors of a level h >= 1, `nodes` holds exactly the cursors
\* of the paths that start at a node defined in level h (to a node of level
\* h-1 or passing by it), on the column of that node, and `paths` exactly
\* the cursors of the paths that pass by level h, on the column of their
\* passing-by slot; the two lists are disjoint.
C19_ByOrigin ==
    pc = "draw" =>
        \A h \in DictKeySet(cursors) :
            DictHas(plan, h - 1) =>
                LET curr == DictGet(plan, h)
                    next == DictGet(plan, h - 1)
                    c == DictGet(cursors, h)
                IN /\ \A x \in Range(c.nodes) :
                          /\ x.node \in Range(curr.defined)
                          /\ x.current
                                 = 2 * (IndexOf(curr.defined, x.node) - 1)
                   /\ \A x \in Range(c.paths) :
                          /\ x.node \in Range(curr.passing_by)
                          /\ x.current
                                 = 2 * (Len(curr.defined)
                                        + IndexOf(curr.passing_by, x.node) - 1)
                   /\ Len(c.nodes) = PathsFrom(curr.defined, next)
                   /\ Len(c.paths) = PathsFrom(curr.passing_by, next)
                   /\ \A n \in Range(curr.defined) \cup Range(curr.passing_by) :
                          \A m \in DefinedNeighbors(n, next) :
                              \E x \in Range(c.nodes) \cup Range(c.paths) :
                                  /\ x.node = n
                                  /\ x.target
                                         = 2 * (IndexOf(next.defined, m) - 1)
                   /\ Range(c.nodes) \cap Range(c.paths) = {}

\* C19 witness: cursors with, in `nodes`, a path that starts at a node and
\* passes by the next level and, in `paths`, a passing path that ends at a
\* node of the next level.
C19_Witness ==
    /\ pc = "draw"
    /\ \E h \in DictKeySet(cursors) :
           /\ DictHas(plan, h - 1)
           /\ \E x \in Range(DictGet(cursors, h).nodes) :
                  /\ x.node \in Range(DictGet(plan, h - 1).passing_by)
                  /\ \A m \in DefinedNeighbors(x.node, DictGet(plan, h - 1)) :
                         x.target # 2 * (IndexOf(DictGet(plan, h - 1).defined,
                                                 m) - 1)
    /\ \E h \in DictKeySet(cursors) :
           /\ DictHas(plan, h - 1)
           /\ \E x \in Range(DictGet(cursors, h).paths) :
                  DefinedNeighbors(x.node, DictGet(plan, h - 1)) # {}

\* C20: paths are continuous across levels: the target column of every
\* cursor of a level h >= 1 is the column where the node row of level h-1
\* shows the destination of the path: the NODE of the neighbor, or the
\* HOLD of the same origin node when the path passes by.
C20_Continuity ==
    pc = "draw" =>
        \A h \in DictKeySet(cursors) :
            DictHas(cursors, h - 1) =>
                LET c == DictGet(cursors, h)
                    below == DictGet(cursors, h - 1)
                IN \A x \in Range(c.nodes) \cup Range(c.paths) :
                       \/ \E y \in Range(below.nodes) :
                              /\ y.current = x.target
                              /\ <<x.node, y.node>> \in Rel(edges)
                       \/ \E y \in Range(below.paths) :
                              /\ y.current = x.target
                              /\ y.node = x.node

\* C8: a fan-in of k >= 2 paths to column 0 is drawn in one row, which is
\* "|/" followed by k - 2 times "_/": HOLD on column 0, LEFT on the odd
\* columns and LEFT_MOVE on the even columns that the slide-left crossed.
C8_FanIn ==
    (pc = "draw" /\ IsFanIn(given.cursors)) =>
        LET k == Len(given.cursors)
        IN /\ Len(canvas) = 1
           /\ RowChars(canvas[1]) = <<"|", "/">> \o Times(<<"_", "/">>, k - 2)
           /\ \A c \in 1 .. Len(canvas[1]) :
                  canvas[1][c].type =
                      IF c = 1 THEN "HOLD"
                      ELSE IF Even(c) THEN "LEFT" ELSE "LEFT_MOVE"
           /\ \A i \in 1 .. Len(cur) : cur[i].current = 0

\* C8 witness: the widest fan-in has been drawn.
C8_Witness ==
    /\ pc = "draw"
    /\ IsFanIn(given.cursors)
    /\ Len(given.cursors) = MaxFanIn
    /\ Len(canvas[1]) = 2 * MaxFanIn - 2

----------------------------------------------------------------------------
(* Printing a given canvas under given options: Printer(options) and       *)
(* Printer.to_string(canvas).                                              *)

\* Labels have at most MaxLabelLen characters.
MaxLabelLen == 3

\* The spacing family uses 0 .. MaxSpaces blanks.
MaxSpaces == 4

Chars == {"a", "b"}

Labels == UNION {[1 .. n -> Chars] : n \in 0 .. MaxLabelLen}

\* A node row as _draw_cursors lays it out: NODE on the even columns.
NodeRow(labels) ==
    [c \in 1 .. 2 * Len(labels) - 1 |->
        IF c % 2 = 1 THEN NodeSymbol(labels[(c + 1) \div 2])
        ELSE Symbol("SPACE")]

\* The canvases of one or two labelled nodes with an edge to one node:
\* a node row, the row of their paths and the row of the node below.
PrinterCanvases ==
    {<<NodeRow(<<a>>), <<Symbol("HOLD")>>, NodeRow(<<z>>)>> :
        a \in Labels, z \in {<< >>, <<"a">>}}
    \cup {<<NodeRow(<<ab[1], ab[2]>>), <<Symbol("HOLD"), Symbol("LEFT")>>,
            NodeRow(<<z>>)>> :
             ab \in Labels \X Labels, z \in {<< >>, <<"a">>}}

\* Options that differ from the defaults in spacing and spaces.
SpacingOptions ==
    {[DefaultOptions EXCEPT !.spacing = m, !.spaces = n] :
        m \in SpacingValues, n \in 0 .. MaxSpaces}

MinLengths == {0, 1, 2}

GroupSizes == {1, 2, 3}

\* Options that differ from the defaults in the grouping of labels.
GroupingOptions ==
    {[DefaultOptions EXCEPT !.group_labels_by_prefix = gp,
                            !.group_labels_by_suffix = gs,
                            !.min_group_size = m,
                            !.prefix_min_length = pm,
                            !.suffix_min_length = sm] :
        gp \in BOOLEAN, gs \in BOOLEAN, m \in GroupSizes,
        pm \in MinLengths, sm \in MinLengths}

InitPrinter ==
    /\ pc = "printer"
    /\ err = ""
    /\ given = [nodes |-> << >>, edges |-> << >>]
    /\ nodes = << >>
    /\ edges = << >>
    /\ heights = << >>
    /\ groups = << >>
    /\ options = DefaultOptions
    /\ plan = Unset
    /\ cursors = Unset
    /\ level = 0
    /\ cur = << >>
    /\ steps = << >>
    /\ rows = << >>
    /\ canvas \in PrinterCanvases
    /\ output = Unset

\* Printer.__init__: keep the options.
NewPrinter ==
    /\ pc = "printer"
    /\ pc' = "canvas"
    /\ options' \in SpacingOptions \cup GroupingOptions
    /\ UNCHANGED <<err, graph_vars, plan, cursors, draw_vars, canvas, output>>

NextPrinter == NewPrinter \/ PrintCanvas

SpecPrinter == InitPrinter /\ [][NextPrinter]_vars

RECURSIVE Split(_, _, _)
\* The pieces of s between the separators, acc being the piece in progress.
Split(s, sep, acc) ==
    IF s = << >> THEN <<acc>>
    ELSE IF Head(s) = sep THEN <<acc>> \o Split(Tail(s), sep, << >>)
    ELSE Split(Tail(s), sep, Append(acc, Head(s)))

\* The rows of the printed string, without the newline that ends each.
PrintedRows ==
    LET pieces == Split(output, "\n", << >>)
    IN SubSeq(pieces, 1, Len(pieces) - 1)

IsPrefix(p, l) == Len(p) <= Len(l) /\ SubSeq(l, 1, Len(p)) = p

IsSuffix(q, l) ==
    Len(q) <= Len(l) /\ SubSeq(l, Len(l) - Len(q) + 1, Len(l)) = q

\* The longest string that starts every label.
LongestPrefix(labels) ==
    LET common == {n \in 0 .. Len(labels[1]) :
                      \A i \in 1 .. Len(labels) :
                          IsPrefix(SubSeq(labels[1], 1, n), labels[i])}
    IN SubSeq(labels[1], 1, Max(common))

\* The longest string that ends every label.
LongestSuffix(labels) ==
    LET l == labels[1]
        common == {n \in 0 .. Len(l) :
                      \A i \in 1 .. Len(labels) :
                          IsSuffix(SubSeq(l, Len(l) - n + 1, Len(l)),
                                   labels[i])}
    IN SubSeq(l, Len(l) - Max(common) + 1, Len(l))

\* The label part PREFIX{a1,...,an}SUFFIX of lossless grouping: an empty
\* entry is written "?", and the braces are left out when PREFIX and SUFFIX
\* are both empty.
GroupedLabels(labels, opt) ==
    LET lcp == LongestPrefix(labels)
        prefix == IF Len(lcp) >= opt.prefix_min_length THEN lcp ELSE << >>
        rest == [i \in 1 .. Len(labels) |->
                    SubSeq(labels[i], Len(prefix) + 1, Len(labels[i]))]
        lcs == LongestSuffix(rest)
        suffix == IF Len(lcs) >= opt.suffix_min_length THEN lcs ELSE << >>
        inner == [i \in 1 .. Len(rest) |->
                     SubSeq(rest[i], 1, Len(rest[i]) - Len(suffix))]
        shown == Join(<<",">>, [i \in 1 .. Len(inner) |->
                                   IF inner[i] = << >> THEN <<"?">>
                                   ELSE inner[i]])
    IN IF prefix = << >> /\ suffix = << >> THEN shown
       ELSE prefix \o <<"{">> \o shown \o <<"}">> \o suffix

----------------------------------------------------------------------------
(* Properties of the printer (specification SpecPrinter).                  *)

\* The printer returned a string under Auto-justified spacing.
AutoJustifiedDone == pc = "done" /\ options.spacing = "AUTO_JUSTIFIED"

\* C9 as stated: under Auto-justified spacing every printed row is exactly
\* global_max_row_width + spaces + (length of its label part) wide, a row
\* without a label part being global_max_row_width + spaces wide.
C9_EveryRowWidth ==
    AutoJustifiedDone =>
        /\ Len(PrintedRows) = Len(canvas)
        /\ \A i \in 1 .. Len(canvas) :
               Len(PrintedRows[i]) =
                   MaxSize(canvas) + options.spaces
                   + (IF HasLabels(canvas[i])
                      THEN Len(_print_labels(RowLabels(canvas[i]), options))
                      ELSE 0)

\* C9: under Auto-justified spacing with spaces >= 0, every printed row that
\* has a label part is exactly global_max_row_width + spaces + (length of
\* the label part) wide; a row without a label part (no NODE with a
\* non-empty label) is exactly as wide as its canvas row.
C9_RowWidth ==
    AutoJustifiedDone =>
        LET printed == PrintedRows
            max_size == MaxSize(canvas)
        IN /\ Len(printed) = Len(canvas)
           /\ \A i \in 1 .. Len(canvas) :
                  Len(printed[i]) =
                      IF HasLabels(canvas[i])
                      THEN max_size + options.spaces
                           + Len(_print_labels(RowLabels(canvas[i]), options))
                      ELSE Len(canvas[i])

\* C9 witness: a string was printed from a canvas with two labelled rows
\* of different widths and a row without labels, with spaces > 0.
C9_Witness ==
    /\ AutoJustifiedDone
    /\ options.spaces > 0
    /\ \E i, j, k \in 1 .. Len(canvas) :
           /\ HasLabels(canvas[i]) /\ HasLabels(canvas[j])
           /\ Len(canvas[i]) < Len(canvas[j])
           /\ ~HasLabels(canvas[k])

\* C10: with grouping by prefix and by suffix enabled, the label part of a
\* row with at least min_group_size labels is PREFIX{a1,...,an}SUFFIX for
\* the longest common prefix and suffix that reach their minimum lengths
\* (any minimum >= 0), and PREFIX + ai + SUFFIX is the i-th label.
C10_LosslessGrouping ==
    (pc = "done" /\ options.group_labels_by_prefix
                 /\ options.group_labels_by_suffix) =>
        \A i \in 1 .. Len(canvas) :
            LET labels == RowLabels(canvas[i])
            IN (HasLabels(canvas[i]) /\ Len(labels) >= options.min_group_size)
                   => \E n \in 0 .. Len(PrintedRows[i]) :
                          PrintedRows[i] = RowChars(canvas[i]) \o Blanks(n)
                                           \o GroupedLabels(labels, options)

RECURSIVE DropBlanks(_)
\* s without its leading blanks.
DropBlanks(s) ==
    IF s # << >> /\ Head(s) = " " THEN DropBlanks(Tail(s)) ELSE s

\* What a printed line shows after the glyphs of its row and the spacing.
LabelPartIn(line, row) == DropBlanks(DropFirst(line, Len(row)))

\* What the i-th printed row shows after the glyphs and the spacing.
LabelPartOf(i) == LabelPartIn(PrintedRows[i], canvas[i])

\* A label part read back: the text before "{", the entries between the
\* commas, the text after "}"; without braces everything is entries.
ReadLabelPart(part) ==
    LET open == IndexOf(part, "{")
        close == IndexOf(part, "}")
    IN IF open = 0
       THEN [prefix |-> << >>, entries |-> Split(part, ",", << >>),
             suffix |-> << >>, braces |-> FALSE]
       ELSE [prefix |-> SubSeq(part, 1, open - 1),
             entries |-> Split(SubSeq(part, open + 1, close - 1), ",", << >>),
             suffix |-> SubSeq(part, close + 1, Len(part)),
             braces |-> TRUE]

\* No common prefix and no common suffix qualifies for the labels: the row
\* is too small for grouping, or the grouping is off or below its minimum
\* length.
NothingQualifies(labels, opt) ==
    \/ Len(labels) < opt.min_group_size
    \/ /\ ~opt.group_labels_by_prefix
             \/ Len(LongestPrefix(labels)) < opt.prefix_min_length
       /\ ~opt.group_labels_by_suffix
             \/ Len(LongestSuffix(labels)) < opt.suffix_min_length

\* C11: a printed row with a non-empty label shows one entry per NODE, in
\* column order, separated by ","; an empty label is shown as "?"; when no
\* prefix or suffix qualifies the entries are the labels, without braces.
\* A row without a non-empty label is printed as its glyphs only.
C11_LabelPart ==
    pc = "done" =>
        LET printed == PrintedRows
        IN \A i \in 1 .. Len(canvas) :
               LET row == canvas[i]
                   line == printed[i]
                   labels == RowLabels(row)
                   read == ReadLabelPart(LabelPartIn(line, row))
               IN /\ SubSeq(line, 1, Len(row)) = RowChars(row)
                  /\ ~HasLabels(row) => line = RowChars(row)
                  /\ HasLabels(row) =>
                         /\ Len(read.entries) = Len(labels)
                         /\ \A k \in 1 .. Len(labels) :
                                /\ read.entries[k] # << >>
                                /\ labels[k] = << >>
                                       => read.entries[k] = <<"?">>
                                /\ \/ read.entries[k] = <<"?">>
                                   \/ read.prefix \o read.entries[k]
                                          \o read.suffix = labels[k]
                         /\ NothingQualifies(labels, options) =>
                                /\ ~read.braces
                                /\ \A k \in 1 .. Len(labels) :
                                       read.entries[k] =
                                           IF labels[k] = << >> THEN <<"?">>
                                           ELSE labels[k]

\* C11 witness: a printed canvas with a row of an empty and a non-empty
\* label for which nothing qualifies, and a node row without any label.
C11_Witness ==
    /\ pc = "done"
    /\ \E i, j \in 1 .. Len(canvas) :
           LET labels == RowLabels(canvas[i])
           IN /\ Len(labels) = 2 /\ labels[1] = << >> /\ labels[2] # << >>
              /\ NothingQualifies(labels, options)
              /\ LabelPartOf(i) = <<"?", ",">> \o labels[2]
              /\ RowLabels(canvas[j]) = <<<< >>>>
              /\ PrintedRows[j] = <<"o">>

\* The number of blanks between the glyphs and the label part of a line.
BlanksIn(line, row) == Len(line) - Len(row) - Len(LabelPartIn(line, row))

\* The number of blanks between the glyphs and the label part of row i.
BlanksOf(i) == BlanksIn(PrintedRows[i], canvas[i])

\* C12: under Justified spacing the labels of a row start at column
\* `spaces` when the glyphs are shorter than `spaces` and one blank after
\* the glyphs otherwise; under Fixed spacing they come after exactly
\* `spaces` blanks.
C12_JustifiedAndFixed ==
    (pc = "done" /\ options.spacing \in {"JUSTIFIED", "FIXED"}) =>
        LET printed == PrintedRows
        IN \A i \in 1 .. Len(canvas) :
               HasLabels(canvas[i]) =>
                   LET blanks == BlanksIn(printed[i], canvas[i])
                   IN /\ LabelPartIn(printed[i], canvas[i]) # << >>
                      /\ options.spacing = "JUSTIFIED" =>
                             IF Len(canvas[i]) < options.spaces
                             THEN Len(canvas[i]) + blanks = options.spaces
                             ELSE blanks = 1
                      /\ options.spacing = "FIXED" => blanks = options.spaces

\* C12 witness: under Justified spacing a row shorter than `spaces` and a
\* row that is not, both with labels.
C12_Witness ==
    /\ pc = "done"
    /\ options.spacing = "JUSTIFIED"
    /\ \E i, j \in 1 .. Len(canvas) :
           /\ HasLabels(canvas[i]) /\ Len(canvas[i]) < options.spaces
           /\ HasLabels(canvas[j]) /\ Len(canvas[j]) >= options.spaces
           /\ BlanksOf(i) > 1 /\ BlanksOf(j) = 1

----------------------------------------------------------------------------
(* Properties of the drawer's relaxation and of the conflict merge.        *)

\* The steps of a list with a symbol at a column, by their index.
Occupying(sts, column) ==
    {j \in 1 .. Len(sts) :
        \E k \in 1 .. Len(sts[j].symbols) : sts[j].symbols[k][1] = column}

\* The step the slide-left transform makes of step i of a list, in the
\* words of the rules; "the occupying step" is the first one of the list.
Slid(sts, i) ==
    LET s == sts[i]
        current == s.cursor.current
        at_curr == Occupying(sts, current)
        at_left == Occupying(sts, current - 1)
        moved == [s.cursor EXCEPT !.current = current - 2]
        left_move == Symbol("LEFT_MOVE")
    IN IF current <= s.cursor.target THEN s
       ELSE IF at_curr = {} /\ at_left = {}
       THEN [cursor |-> moved,
             symbols |-> s.symbols \o <<<<current - 1, left_move>>,
                                        <<current, left_move>>>>]
       ELSE IF at_curr = {}
       THEN IF sts[Min(at_left)].cursor.target = s.cursor.target
            THEN [cursor |-> moved,
                  symbols |-> Append(s.symbols, <<current, left_move>>)]
            ELSE s
       ELSE IF sts[Min(at_curr)].cursor.target = s.cursor.target
            THEN [cursor |-> moved, symbols |-> s.symbols]
            ELSE s

\* C21: one application of the slide-left transform makes of every step
\* what the rules say, read on the list as it was before: unchanged when
\* current <= target; else moved by -2 with LEFT_MOVE at current-1 and
\* current when both columns are free; moved by -2 with LEFT_MOVE at
\* current when only current-1 is occupied, by a step of the same target;
\* moved by -2 with no new symbol when current is occupied by a step of the
\* same target; unchanged when the occupying step has another target.
C21_SlideLeft ==
    [][pc = "relax" =>
          LET slid == [i \in 1 .. Len(steps) |-> Slid(steps, i)]
          IN IF pc' = "relax"
             THEN steps' = slid
             ELSE /\ slid = steps
                  /\ cur' = [i \in 1 .. Len(steps) |-> slid[i].cursor]]_vars

\* C21 witness: a step was moved three times in one row, by the move to
\* the left, by joining the path on its left and by joining the path on its
\* own column, which added one LEFT_MOVE only.
C21_Witness ==
    /\ pc = "relax"
    /\ \E i \in 1 .. Len(steps) :
           /\ cur[i].current - steps[i].cursor.current = 6
           /\ Len(steps[i].symbols) = 2
           /\ steps[i].symbols[2] = <<cur[i].current - 2, Symbol("LEFT_MOVE")>>

\* The two loops of _draw_paths as a sequential program: an application of
\* _move_cursors or of _move_left that can be made is made.
SpecDrawFair == SpecDraw /\ WF_vars(MoveCursors \/ MoveLeft)

\* _make_symbols is at its return: a row was made and no cursor is off its
\* target.
MakeSymbolsReturns ==
    pc \in {"symbols", "draw"} /\ rows # << >> /\ NoChanges(cur)

Abs(n) == IF n < 0 THEN -n ELSE n

RECURSIVE Distance(_)
\* The sum of |current - target| over a list of cursors.
Distance(cs) ==
    IF cs = << >> THEN 0
    ELSE Abs(Head(cs).current - Head(cs).target) + Distance(Tail(cs))

\* Cursor c is on the side of its target where cursor c0 was, or on it.
NotPast(c0, c) ==
    /\ c.target = c0.target
    /\ c0.current <= c0.target => (c0.current <= c.current
                                      /\ c.current <= c.target)
    /\ c0.current >= c0.target => (c0.current >= c.current
                                      /\ c.current >= c.target)

\* C22: the relaxation terminates.  Every application of the slide-left
\* that changes a step, and every path row begun with a cursor off its
\* target, strictly reduces the sum of |current - target|; no cursor moves
\* past its target; _make_symbols comes to its return, and then every
\* cursor is on its target.
C22_Termination ==
    /\ [][/\ (pc = "relax" /\ pc' = "relax") =>
                 Distance(StepCursors(steps')) < Distance(StepCursors(steps))
          /\ (pc = "symbols" /\ pc' = "relax" /\ ~NoChanges(cur)) =>
                 Distance(StepCursors(steps')) < Distance(cur)
          /\ (pc = "relax" /\ pc' = "symbols") =>
                 Distance(cur') = Distance(StepCursors(steps))]_vars
    /\ [](/\ Len(cur) = Len(given.cursors)
          /\ \A i \in 1 .. Len(cur) : NotPast(given.cursors[i], cur[i])
          /\ Len(steps) \in {0, Len(cur)}
          /\ \A i \in 1 .. Len(steps) : NotPast(cur[i], steps[i].cursor)
          /\ pc = "draw" => NoChanges(cur))
    /\ <>MakeSymbolsReturns

\* C22 witness: _draw_paths has returned after more than one path row and
\* a slide to the left, for cursors that moved to the left and to the
\* right.
C22_Witness ==
    /\ pc = "draw"
    /\ Len(rows) >= 2
    /\ \E r \in 1 .. Len(rows) : \E k \in 1 .. Len(rows[r]) :
           rows[r][k][2].type = "LEFT_MOVE"
    /\ \E i, j \in 1 .. Len(cur) :
           /\ given.cursors[i].current > given.cursors[i].target
           /\ given.cursors[j].current < given.cursors[j].target

\* The step the move gives a cursor, in the words of the three cases.
Moved(c) ==
    CASE c.current < c.target ->
             [cursor |-> [c EXCEPT !.current = c.current + 2],
              symbols |-> <<<<c.current + 1, Symbol("RIGHT")>>>>]
      [] c.current > c.target ->
             [cursor |-> [c EXCEPT !.current = c.current - 2],
              symbols |-> <<<<c.current - 1, Symbol("LEFT")>>>>]
      [] OTHER ->
             [cursor |-> c, symbols |-> <<<<c.current, Symbol("HOLD")>>>>]

\* C23: the move step of a path row gives every cursor one symbol: RIGHT
\* at current+1 and the cursor advanced by +2, LEFT at current-1 and the
\* cursor advanced by -2, or HOLD at current and the cursor in place.  A
\* cursor that started at c0 < target is never slid: in path row k it has
\* the single symbol RIGHT at c0 + 2k - 1 and stands on c0 + 2k, for
\* k = 1 .. (target - c0) / 2, where it reaches its target; from then on
\* it has HOLD on its target.
C23_MoveStep ==
    /\ [][(pc = "symbols" /\ pc' = "relax") =>
              steps' = [i \in 1 .. Len(cur) |-> Moved(cur[i])]]_vars
    /\ [](\A i \in 1 .. Len(given.cursors) :
              LET c0 == given.cursors[i]
                  n == (c0.target - c0.current) \div 2
                  at(k) == IF k <= n THEN c0.current + 2 * k ELSE c0.target
              IN c0.current < c0.target =>
                     /\ cur[i].current = at(Len(rows))
                     /\ pc = "relax" =>
                            LET k == Len(rows) + 1
                            IN /\ steps[i].cursor.current = at(k)
                               /\ steps[i].symbols =
                                      IF k <= n
                                      THEN <<<<at(k) - 1, Symbol("RIGHT")>>>>
                                      ELSE <<<<at(k), Symbol("HOLD")>>>>
                     /\ pc = "draw" => Len(rows) >= n)

\* C23 witness: the path rows of a cursor that moved two columns to the
\* right twice, of a cursor that moved to the left and of a cursor that
\* held its column are complete.
C23_Witness ==
    /\ pc = "draw"
    /\ Len(rows) = 2
    /\ \E i, j, k \in 1 .. Len(cur) :
           /\ given.cursors[i].target - given.cursors[i].current = 4
           /\ given.cursors[j].current > given.cursors[j].target
           /\ given.cursors[k].current = given.cursors[k].target

----------------------------------------------------------------------------
(* The conflict merge on its own: _merge_symbols on the symbols that land  *)
(* on one column of a row, for every choice of the symbols.                *)

\* At most MaxGroup symbols land on the column.
MaxGroup == 3

SymbolTypes ==
    {"CROSS", "HOLD", "LEFT", "LEFT_MOVE", "NODE", "RIGHT", "RIGHT_MOVE",
     "SPACE"}

\* The symbols: one of each type without a label, and labelled nodes.
Symbols ==
    {Symbol(t) : t \in SymbolTypes} \cup {NodeSymbol(<<c>>) : c \in Chars}

\* The lists of two or more (position, symbol) pairs on column 0.
MergeInputs ==
    UNION {[1 .. n -> {<<0, s>> : s \in Symbols}] : n \in 2 .. MaxGroup}

InitMerge ==
    /\ pc = "merge"
    /\ err = ""
    /\ \E symbols \in MergeInputs : given = [symbols |-> symbols]
    /\ nodes = << >>
    /\ edges = << >>
    /\ heights = << >>
    /\ groups = << >>
    /\ options = DefaultOptions
    /\ plan = Unset
    /\ cursors = Unset
    /\ level = 1
    /\ cur = << >>
    /\ steps = << >>
    /\ rows = << >>
    /\ canvas = << >>
    /\ output = Unset

\* dict(_merge_symbols(row)) on the symbols of the column, as _draw_paths
\* calls it: the canvas gets the dense row of the merged symbols.
MergeSymbols ==
    /\ pc = "merge"
    /\ pc' = "merged"
    /\ rows' = <<given.symbols>>
    /\ canvas' = <<DenseRow(_merge_symbols(given.symbols))>>
    /\ UNCHANGED <<err, given, graph_vars, options, plan, cursors, level,
                   cur, steps, output>>

NextMerge == MergeSymbols

SpecMerge == InitMerge /\ [][NextMerge]_vars

\* The symbol the rules give for a first symbol a and a second symbol b,
\* in the order the rules are listed.
Resolved(a, b) ==
    CASE a.type = "NODE" \/ b.type = "NODE" ->
             IF a.type = "NODE" THEN a ELSE b
      [] a.type # "NODE" /\ b.type # "NODE"
             /\ (a.type = "SPACE") # (b.type = "SPACE") ->
             IF a.type = "SPACE" THEN b ELSE a
      [] {a.type, b.type} = {"LEFT", "RIGHT"} -> Symbol("CROSS")
      [] "CROSS" \in {a.type, b.type}
             /\ {a.type, b.type} \cap {"LEFT", "RIGHT"} # {} ->
             Symbol("CROSS")
      [] OTHER -> a

\* The symbols of the merged column and the symbol the row shows there.
Landed == [i \in 1 .. Len(given.symbols) |-> given.symbols[i][2]]

Shown == canvas[1][1]

\* C24: two symbols a, b on one column merge to NODE if either is NODE
\* (the first when both are), else to the other symbol if exactly one is
\* SPACE, else to CROSS for LEFT with RIGHT and for CROSS with LEFT or
\* RIGHT in either order, else to the first operand a; several LEFT and
\* RIGHT on one column, with at least one of each, show CROSS.
C24_ResolveConflict ==
    pc = "merged" =>
        /\ Len(Landed) = 2 => Shown = Resolved(Landed[1], Landed[2])
        /\ {Landed[i].type : i \in 1 .. Len(Landed)} = {"LEFT", "RIGHT"} =>
               Shown = Symbol("CROSS") /\ to_char(Shown.type) = "x"

\* C24 witness: a pair without a rule of its own, LEFT then HOLD, was
\* merged to its first symbol.
C24_Witness ==
    /\ pc = "merged"
    /\ Landed = <<Symbol("LEFT"), Symbol("HOLD")>>
    /\ Shown = Symbol("LEFT")

----------------------------------------------------------------------------
(* The conflict merge in the path rows of the drawer (specification        *)
(* SpecDraw).                                                              *)

\* The symbols a sparse row lists for a column, in the order of the list.
OnColumn(row, column) ==
    LET listed == SelectSeq(row, LAMBDA p : p[1] = column)
    IN [i \in 1 .. Len(listed) |-> listed[i][2]]

\* The orders in which n symbols can be listed.
Orders(n) ==
    {f \in [1 .. n -> 1 .. n] : \A i, j \in 1 .. n : f[i] = f[j] => i = j}

\* The symbols of a column listed in the order f.
Listed(group, f) == [i \in 1 .. Len(group) |-> group[f[i]]]

\* _draw_paths has returned; `rows` holds the sparse rows it merged.
PathsDrawn == pc = "draw" /\ rows # << >>

\* C25: the conflict merge is commutative on the symbols of the path rows:
\* for every two symbols a and b that a row lists for the same column,
\* merging a with b gives the symbol that merging b with a gives, and the
\* merged row is the same in whatever order the symbols of the steps are
\* listed.
C25_CommutativeMerge ==
    PathsDrawn =>
        \A r \in 1 .. Len(rows) :
            /\ \A i, j \in 1 .. Len(rows[r]) :
                   rows[r][i][1] = rows[r][j][1] =>
                       _resolve_conflict(rows[r][i][2], rows[r][j][2])
                           = _resolve_conflict(rows[r][j][2], rows[r][i][2])
            /\ \A column \in {rows[r][i][1] : i \in 1 .. Len(rows[r])} :
                   LET group == OnColumn(rows[r], column)
                   IN \A f \in Orders(Len(group)) :
                          Reduce(Head(Listed(group, f)),
                                 Tail(Listed(group, f)))
                              = DictGet(_merge_symbols(rows[r]), column)
            /\ DenseRow(_merge_symbols(Reverse(rows[r])))
                   = DenseRow(_merge_symbols(rows[r]))

\* C25 witness: a row lists a RIGHT, a LEFT and a RIGHT for one column, in
\* this order, and the merged row shows CROSS there.
C25_Witness ==
    /\ PathsDrawn
    /\ Len(canvas) = Len(rows)
    /\ \E r \in 1 .. Len(rows) :
           \E column \in {rows[r][i][1] : i \in 1 .. Len(rows[r])} :
               /\ OnColumn(rows[r], column)
                      = <<Symbol("RIGHT"), Symbol("LEFT"), Symbol("RIGHT")>>
               /\ canvas[r][column + 1] = Symbol("CROSS")

\* The columns of the cursors of a list.
ColumnsOf(cs) == {cs[i].current : i \in 1 .. Len(cs)}

----------------------------------------------------------------------------
(* Properties of the rows of the canvas (specification Spec).              *)

\* _draw_cursors has just appended the node row of the level it is at.
NodeRowDrawn == pc = "symbols" /\ rows = << >> /\ steps = << >>

\* The plan of the level whose node row is being drawn.
PlanOfLevel == DictGet(plan, cursors[level][1])

\* C27: the node row of level h has NODE on the columns 0, 2, ..., 2(d-1),
\* with the label of the i-th defined node on column 2i, HOLD on the
\* columns 2d, ..., 2(d+p-1) and SPACE on the odd columns in between, for
\* d = |P[h].defined| and p = |P[h].passing_by|; no level has a node cursor
\* and a path cursor on one column; the finished canvas has one NODE
\* symbol for every node of the graph.
C27_NodeRow ==
    /\ NodeRowDrawn =>
           LET d == Len(PlanOfLevel.defined)
               p == Len(PlanOfLevel.passing_by)
               row == canvas[Len(canvas)]
           IN /\ Len(row) = 2 * (d + p) - 1
              /\ \A c \in 0 .. Len(row) - 1 :
                     row[c + 1] =
                         IF ~Even(c) THEN Symbol("SPACE")
                         ELSE IF c < 2 * d
                         THEN NodeSymbol(DictGet(nodes,
                                  PlanOfLevel.defined[c \div 2 + 1]))
                         ELSE Symbol("HOLD")
              /\ ColumnsOf(cursors[level][2].nodes)
                     \cap ColumnsOf(cursors[level][2].paths) = {}
    /\ pc = "canvas" =>
           /\ Cardinality({x \in CanvasCells : x[3].type = "NODE"})
                  = Len(nodes)
           /\ \A n \in DictKeySet(nodes) :
                  Cardinality({x \in {<<i, k>> : i \in 1 .. Len(plan),
                                                 k \in 1 .. Len(nodes)} :
                      /\ x[2] <= Len(plan[x[1]][2].defined)
                      /\ plan[x[1]][2].defined[x[2]] = n}) = 1

\* C27 witness: the node row of a level with two defined nodes, one of them
\* labelled, and a path passing by has been drawn.
C27_Witness ==
    /\ NodeRowDrawn
    /\ Len(PlanOfLevel.defined) = 2
    /\ Len(PlanOfLevel.passing_by) = 1
    /\ \E i \in 1 .. 2 : DictGet(nodes, PlanOfLevel.defined[i]) # << >>
    /\ RowChars(canvas[Len(canvas)]) = <<"o", " ", "o", " ", "|">>

\* The node row of a level of the plan: its defined nodes, then its paths.
NodeRowOf(p) ==
    LET d == Len(p.defined)
    IN [c \in 1 .. 2 * (d + Len(p.passing_by)) - 1 |->
           IF Even(c) THEN Symbol("SPACE")
           ELSE IF c < 2 * d
           THEN NodeSymbol(DictGet(nodes, p.defined[(c + 1) \div 2]))
           ELSE Symbol("HOLD")]

\* The rows of the canvas that hold a NODE, from the top.
NodeRows ==
    SetOrder({r \in 1 .. Len(canvas) :
                 \E c \in 1 .. Len(canvas[r]) : canvas[r][c].type = "NODE"})

\* The height of the graph.
MaxHeight == Max({heights[i][2] : i \in 1 .. Len(heights)})

\* The loop of _make_canvas is over and the last row is still there.
BeforePop == pc = "draw" /\ level > Len(cursors)

\* C28: the last row drawn before the trimming is the one path row of
\* level 0, HOLD on the even and SPACE on the odd columns; canvas.pop()
\* removes that row and no other; the canvas then starts with the node row
\* of level h_max, ends with the node row of level 0 and has h_max + 1
\* node rows, those of the levels h_max, ..., 0 in this order.
C28_TrailingRow ==
    /\ [](BeforePop =>
              LET last == canvas[Len(canvas)]
              IN /\ cursors[Len(cursors)][1] = 0
                 /\ Len(rows) = 1
                 /\ last = DenseRow(_merge_symbols(rows[1]))
                 /\ canvas[Len(canvas) - 1]
                        = NodeRowOf(DictGet(plan, 0))
                 /\ \A c \in 1 .. Len(last) :
                        last[c] = IF Even(c) THEN Symbol("SPACE")
                                  ELSE Symbol("HOLD"))
    /\ [][(BeforePop /\ pc' = "canvas") =>
              canvas = Append(canvas', canvas[Len(canvas)])]_vars
    /\ [](pc = "canvas" =>
              /\ Len(NodeRows) = MaxHeight + 1
              /\ NodeRows[1] = 1
              /\ NodeRows[Len(NodeRows)] = Len(canvas)
              /\ \A k \in 1 .. Len(NodeRows) :
                     canvas[NodeRows[k]]
                         = NodeRowOf(DictGet(plan, MaxHeight + 1 - k)))

\* C28 witness: the canvas of a graph of height 2 with two nodes at level
\* 0 was trimmed.
C28_Witness ==
    /\ pc = "canvas"
    /\ MaxHeight = 2
    /\ Len(NodeRows) = 3
    /\ Len(DictGet(plan, 0).defined) = 2
    /\ RowChars(canvas[Len(canvas)]) = <<"o", " ", "o">>

\* _draw_paths has just returned the path rows of a level.
LevelDrawn == pc = "draw" /\ level > 1

\* The cursors of the level just drawn.
LevelCursors == cursors[level - 1][2].nodes \o cursors[level - 1][2].paths

\* The number of rows of the canvas below its last row with a NODE.
RowsBelowNodes == Len(canvas) - NodeRows[Len(NodeRows)]

\* C29: below the node row of every level the drawer draws at least one
\* path row and at most max(1, max |current - target| / 2) over the
\* cursors of the level; when every cursor of the level already has
\* current = target it draws exactly one, with HOLD on the column of every
\* cursor and SPACE elsewhere.
C29_PathRows ==
    LevelDrawn =>
        LET cs == LevelCursors
            far == Max({Abs(cs[i].current - cs[i].target) :
                           i \in 1 .. Len(cs)}) \div 2
            last == canvas[Len(canvas)]
        IN /\ NodeRows # << >>
           /\ canvas[NodeRows[Len(NodeRows)]]
                  = NodeRowOf(DictGet(plan, cursors[level - 1][1]))
           /\ RowsBelowNodes >= 1
           /\ RowsBelowNodes <= Max({1, far})
           /\ RowsBelowNodes = Len(rows)
           /\ NoChanges(cs) =>
                  /\ RowsBelowNodes = 1
                  /\ \A c \in 1 .. Len(last) :
                         last[c] = IF c - 1 \in ColumnsOf(cs)
                                   THEN Symbol("HOLD") ELSE Symbol("SPACE")
                  /\ ColumnsOf(cs) \subseteq 0 .. Len(last) - 1

\* C29 witness: a level with a cursor on its target and a cursor two node
\* columns away from its target was drawn in two path rows.
C29_Witness ==
    /\ LevelDrawn
    /\ \E i, j \in 1 .. Len(LevelCursors) :
           /\ Abs(LevelCursors[i].current - LevelCursors[i].target) = 4
           /\ LevelCursors[j].current = LevelCursors[j].target
    /\ RowsBelowNodes = 2
    /\ Len(canvas) = 3

\* C30: the heights in use are contiguous.  For a graph with a node, the
\* keys of height_groups are exactly 0 .. h_max, each once, and no group
\* is empty; the plan and the cursors have an entry for every level, the
\* cursors from h_max down to 0, each with a node to draw; no row of the
\* canvas is empty; and once the heights are computed nothing raises but
\* an unknown spacing method.
C30_ContiguousLevels ==
    /\ (GroupsDone /\ nodes # << >>) =>
           /\ DictKeySet(groups) = 0 .. MaxHeight
           /\ Cardinality(DictKeySet(groups)) = Len(groups)
           /\ \A i \in 1 .. Len(groups) : groups[i][2] # << >>
    /\ pc = "plan" =>
           /\ DictKeySet(plan) = 0 .. MaxHeight
           /\ Cardinality(DictKeySet(plan)) = Len(plan)
           /\ \A i \in 1 .. Len(plan) : plan[i][2].defined # << >>
    /\ (pc = "draw" /\ level = 1) =>
           /\ Len(cursors) = MaxHeight + 1
           /\ \A i \in 1 .. Len(cursors) :
                  /\ cursors[i][1] = MaxHeight + 1 - i
                  /\ cursors[i][2].nodes # << >>
    /\ pc = "canvas" =>
           /\ canvas # << >>
           /\ \A r \in 1 .. Len(canvas) : canvas[r] # << >>
    /\ (pc = "error" /\ heights # << >>) =>
           err = "ValueError: unknown spacing method"

\* C30 witness: the cursors of a graph of height 2 with a level of two
\* nodes were built, one record for each of the levels 2, 1 and 0.
C30_Witness ==
    /\ pc = "draw"
    /\ level = 1
    /\ MaxHeight = 2
    /\ Len(cursors) = 3
    /\ \E i \in 1 .. Len(groups) : Len(groups[i][2]) = 2

=============================================================================
